---- MODULE Spec2Model ----
(***************************************************************************)
(* Receipt verification of the An-Nour registration backend:               *)
(* app/utils/receipt_analyzer.py (field extraction, verdict, message),     *)
(* app/utils/ocr_processor.py (preprocessing, OCR strategies, cleaning),   *)
(* and the requests of app/routes/registrations.py and app/routes/admin.py *)
(* on the registration and dortoir tables, with                            *)
(* app/utils/matricule_generator.py.                                       *)
(*                                                                         *)
(* A text is a sequence of characters, each character a one-letter string. *)
(* The regular expressions of the source are kept as syntax trees and run  *)
(* by a backtracking matcher that returns the matches in the order         *)
(* Python's re module tries them, so that search, finditer and sub pick    *)
(* the match the source picks.                                             *)
(***************************************************************************)
EXTENDS Integers, Sequences, FiniteSets, TLC

VARIABLES
    pc,               \* where the verify_receipt request stands
    scenario,         \* the photo uploaded: which lines it shows
    extracted_text,   \* the text process_image returned
    extracted,        \* the five extractions of analyze_receipt
    expected_amount,  \* the expected_amount form field
    registrations,    \* the Ledger: the stored registrations
    result,           \* the verdict returned
    calls,            \* the requests the server is handling concurrently
    verified_valid,   \* the transaction identifiers a verification answered valid for
    current_count,    \* the dortoir's counter of registrations
    ocr_pc,           \* where process_image stands
    strategy_index,   \* the strategy process_image runs next
    candidates,       \* the non-empty texts process_image has collected
    passes,           \* the OCR passes process_image has run, in order
    pre_pc,           \* where preprocess_image stands
    pil_image,        \* the image handed to preprocess_image
    img,              \* the image preprocess_image is working on
    failed_step,      \* the step of preprocess_image that raised
    pre,              \* the image preprocess_image returned
    requests,         \* the create and delete requests the server is handling concurrently
    dortoirs          \* the dortoir table: capacity and current_count of each dortoir

\* the state of a single verify_receipt request
receipt_vars == <<pc, scenario, extracted_text, extracted, expected_amount, result>>

\* the state of the requests on the dortoirs, the registration table apart
dortoir_vars == <<requests, dortoirs>>

\* the state of the concurrent requests, the Ledger apart
workflow_vars == <<calls, verified_valid, current_count, dortoir_vars>>

\* the state of a preprocess_image call
pre_vars == <<pre_pc, pil_image, img, failed_step, pre>>

\* the state of a process_image call
ocr_vars == <<ocr_pc, strategy_index, candidates, passes, pre_vars>>

vars == <<receipt_vars, registrations, workflow_vars, ocr_vars>>

(***************************************************************************)
(* Characters                                                              *)
(***************************************************************************)
UpperSeq == <<"A","B","C","D","E","F","G","H","I","J","K","L","M","N","O","P","Q","R","S","T","U","V","W","X","Y","Z">>

LowerSeq == <<"a","b","c","d","e","f","g","h","i","j","k","l","m","n","o","p","q","r","s","t","u","v","w","x","y","z">>

Upper == {UpperSeq[k] : k \in 1..Len(UpperSeq)}

Lower == {LowerSeq[k] : k \in 1..Len(LowerSeq)}

Digit == {"0","1","2","3","4","5","6","7","8","9"}

\* the accented letters and the check marks the status patterns name
EAcuteUpper == "E_acute"

EAcuteLower == "e_acute"

CheckMarks == {"check_mark", "heavy_check_mark"}

NL == "\n"

\* \s of Python's re
Space == {" ", "\t", NL, "\r", "\f", "v_tab"}

\* \w of Python's re (str patterns: letters, digits, underscore)
Word == Upper \cup Lower \cup Digit \cup {"_", EAcuteUpper, EAcuteLower}

\* every character of the model: what "." and a negated class range over
AnyChar ==
    Word \cup Space \cup CheckMarks
    \cup {".", ",", ":", "-", "'", "?", "/", "(", ")", "not_equal", "e_circ", "en_dash", "em_dash"}

IndexIn(seq, c) == CHOOSE k \in 1..Len(seq) : seq[k] = c

\* str.upper() and str.lower() on one character
ToUpper(c) ==
    IF c \in Lower THEN UpperSeq[IndexIn(LowerSeq, c)]
    ELSE IF c = EAcuteLower THEN EAcuteUpper ELSE c

ToLower(c) ==
    IF c \in Upper THEN LowerSeq[IndexIn(UpperSeq, c)]
    ELSE IF c = EAcuteUpper THEN EAcuteLower ELSE c

\* str.upper()
StrUpper(s) == [k \in 1..Len(s) |-> ToUpper(s[k])]

\* str.replace(old, new) for a one-character old
ReplaceChar(s, old, new) == [k \in 1..Len(s) |-> IF s[k] = old THEN new ELSE s[k]]

RECURSIVE Flatten(_)
\* the concatenation of a sequence of sequences
Flatten(ss) == IF ss = <<>> THEN <<>> ELSE Head(ss) \o Flatten(Tail(ss))

(***************************************************************************)
(* Regular expressions: syntax trees                                       *)
(***************************************************************************)
Ch(S) == [t |-> "set", cs |-> S]

Cat(xs) == [t |-> "cat", xs |-> xs]

Alt(xs) == [t |-> "alt", xs |-> xs]

\* r{lo,hi}, greedy; hi = -1 is no upper limit
Rep(r, lo, hi) == [t |-> "rep", r |-> r, lo |-> lo, hi |-> hi, greedy |-> TRUE]

\* r{lo,hi}?, lazy
Lazy(r, lo, hi) == [t |-> "rep", r |-> r, lo |-> lo, hi |-> hi, greedy |-> FALSE]

Star(r) == Rep(r, 0, -1)

Plus(r) == Rep(r, 1, -1)

Opt(r) == Rep(r, 0, 1)

\* the capturing group (every pattern of the source has at most one)
Grp(r) == [t |-> "grp", r |-> r]

\* (?=r)
Ahead(r) == [t |-> "ahead", r |-> r]

\* (?<=[S])
Behind(S) == [t |-> "behind", cs |-> S]

\* \b
WordB == [t |-> "wordb"]

\* $
Eol == [t |-> "eol"]

\* a literal word
Lit(w) == Cat([k \in 1..Len(w) |-> Ch({w[k]})])

\* "." : any character but a line break
Dot == Ch(AnyChar \ {NL})

RECURSIVE IgnoreCase(_)
\* the pattern compiled with re.IGNORECASE
IgnoreCase(r) ==
    CASE r.t = "set" -> Ch(r.cs \cup {ToUpper(c) : c \in r.cs} \cup {ToLower(c) : c \in r.cs})
      [] r.t = "cat" -> Cat([k \in 1..Len(r.xs) |-> IgnoreCase(r.xs[k])])
      [] r.t = "alt" -> Alt([k \in 1..Len(r.xs) |-> IgnoreCase(r.xs[k])])
      [] r.t = "rep" -> [r EXCEPT !.r = IgnoreCase(r.r)]
      [] r.t = "grp" -> Grp(IgnoreCase(r.r))
      [] r.t = "ahead" -> Ahead(IgnoreCase(r.r))
      [] OTHER -> r

(***************************************************************************)
(* The matcher.  A position i of s is the gap before s[i], 1..Len(s)+1.    *)
(* Match(r, s, i) is the sequence of all the ways r matches from i, in     *)
(* backtracking order: e is the position after the match, g the span of    *)
(* the capturing group (<<0, 0>>: not set).                                *)
(***************************************************************************)
NoGroup == <<0, 0>>

At(i) == <<[e |-> i, g |-> NoGroup]>>

IsWordAt(s, i) == i >= 1 /\ i <= Len(s) /\ s[i] \in Word

\* the matches ms of a group that starts at i: each records the span it matched
Captured(ms, i) == [k \in 1..Len(ms) |-> [e |-> ms[k].e, g |-> <<i, ms[k].e>>]]

\* the first position of lo..hi whose character is not in cs, hi + 1 when there is none
\* (found by halving, to keep the evaluation shallow)
RECURSIVE FirstBreak(_, _, _, _)
FirstBreak(cs, s, lo, hi) ==
    IF lo > hi THEN hi + 1
    ELSE IF lo = hi THEN (IF s[lo] \in cs THEN hi + 1 ELSE lo)
    ELSE LET mid  == (lo + hi) \div 2
             left == FirstBreak(cs, s, lo, mid)
         IN  IF left <= mid THEN left ELSE FirstBreak(cs, s, mid + 1, hi)

\* the number of characters in cs from position i on, without a break, up to limit (-1: no limit)
RunLength(cs, s, i, limit) ==
    FirstBreak(cs, s, i, IF limit = -1 \/ i + limit - 1 > Len(s) THEN Len(s) ELSE i + limit - 1) - i

\* the matches of a repeated character class whose run from i is maxn long:
\* one for each count from r.lo to maxn, the longest first when greedy
RepCounts(r, i, maxn) ==
    IF maxn < r.lo THEN <<>>
    ELSE [k \in 1..(maxn - r.lo + 1) |->
             [e |-> i + (IF r.greedy THEN maxn - k + 1 ELSE r.lo + k - 1), g |-> NoGroup]]

\* a repeated character class: the run decides the counts
MatchRepSet(r, s, i) == RepCounts(r, i, RunLength(r.r.cs, s, i, r.hi))

RECURSIVE Match(_, _, _), MatchCat(_, _, _, _), MatchAlt(_, _, _, _), MatchRep(_, _, _, _)
Match(r, s, i) ==
    CASE r.t = "set" -> IF i <= Len(s) /\ s[i] \in r.cs THEN At(i + 1) ELSE <<>>
      [] r.t = "cat" -> MatchCat(r.xs, 1, s, i)
      [] r.t = "alt" -> MatchAlt(r.xs, 1, s, i)
      [] r.t = "rep" -> MatchRep(r, 0, s, i)
      [] r.t = "grp" -> Captured(Match(r.r, s, i), i)
      [] r.t = "ahead" -> IF Match(r.r, s, i) # <<>> THEN At(i) ELSE <<>>
      [] r.t = "behind" -> IF i > 1 /\ s[i - 1] \in r.cs THEN At(i) ELSE <<>>
      [] r.t = "wordb" -> IF IsWordAt(s, i - 1) # IsWordAt(s, i) THEN At(i) ELSE <<>>
      [] r.t = "eol" ->
            IF i = Len(s) + 1 \/ (i = Len(s) /\ s[i] = NL) THEN At(i) ELSE <<>>

MatchCat(xs, k, s, i) ==
    IF k > Len(xs) THEN At(i)
    ELSE LET ms == Match(xs[k], s, i)
             rest(m) == LET ts == MatchCat(xs, k + 1, s, m.e)
                        IN  [j \in 1..Len(ts) |->
                                [e |-> ts[j].e,
                                 g |-> IF ts[j].g = NoGroup THEN m.g ELSE ts[j].g]]
         IN  Flatten([j \in 1..Len(ms) |-> rest(ms[j])])

MatchAlt(xs, k, s, i) ==
    IF k > Len(xs) THEN <<>>
    ELSE Match(xs[k], s, i) \o MatchAlt(xs, k + 1, s, i)

MatchRep(r, n, s, i) ==
    IF r.r.t = "set" THEN MatchRepSet(r, s, i)
    ELSE LET stop == IF n >= r.lo THEN At(i) ELSE <<>>
             ms   == IF r.hi = -1 \/ n < r.hi THEN Match(r.r, s, i) ELSE <<>>
             more == Flatten([j \in 1..Len(ms) |->
                                 IF ms[j].e > i THEN MatchRep(r, n + 1, s, ms[j].e) ELSE <<>>])
         IN  IF r.greedy THEN more \o stop ELSE stop \o more

NoMatch == [found |-> FALSE, s |-> 0, e |-> 0, g |-> NoGroup]

\* the match object for the ways ms the pattern matches from lo: the first way, if any
FirstWay(ms, lo) ==
    IF ms # <<>> THEN [found |-> TRUE, s |-> lo, e |-> ms[1].e, g |-> ms[1].g] ELSE NoMatch

RECURSIVE SearchRange(_, _, _, _)
\* the first match of the leftmost position of lo..hi that has one
\* (found by halving, to keep the evaluation shallow)
SearchRange(r, s, lo, hi) ==
    IF lo > hi THEN NoMatch
    ELSE IF lo = hi THEN FirstWay(Match(r, s, lo), lo)
    ELSE LET mid  == (lo + hi) \div 2
             left == SearchRange(r, s, lo, mid)
         IN  IF left.found THEN left ELSE SearchRange(r, s, mid + 1, hi)

\* re.search from position i on
SearchFrom(r, s, i) == SearchRange(r, s, i, Len(s) + 1)

\* re.search(pattern, s)
Search(r, s) == SearchFrom(r, s, 1)

\* match.group(1) if the group is set, else match.group(0)
GroupText(s, m) ==
    IF m.g # NoGroup THEN SubSeq(s, m.g[1], m.g[2] - 1) ELSE SubSeq(s, m.s, m.e - 1)

RECURSIVE FindIter(_, _, _), FindIterAfter(_, _, _)
\* re.finditer: the successive non-overlapping matches, left to right
FindIter(r, s, i) == FindIterAfter(r, s, SearchFrom(r, s, i))

\* the match m, and the matches after it
FindIterAfter(r, s, m) ==
    IF ~m.found THEN <<>>
    ELSE <<m>> \o FindIter(r, s, IF m.e > m.s THEN m.e ELSE m.e + 1)

RECURSIVE SubFrom(_, _, _, _), SubAfter(_, _, _, _, _)
\* s from i on, with the matches replaced by repl
SubFrom(r, repl, s, i) == SubAfter(r, repl, s, i, SearchFrom(r, s, i))

\* s from i on, m being the next match: the text before it, repl, and the rest
SubAfter(r, repl, s, i, m) ==
    IF ~m.found THEN SubSeq(s, i, Len(s))
    ELSE IF m.e > m.s
         THEN SubSeq(s, i, m.s - 1) \o repl \o SubFrom(r, repl, s, m.e)
         ELSE SubSeq(s, i, m.s - 1) \o repl
                \o (IF m.s <= Len(s) THEN <<s[m.s]>> ELSE <<>>)
                \o SubFrom(r, repl, s, m.s + 1)

\* re.sub(pattern, repl, s) for a repl without group references
Sub(r, repl, s) == SubFrom(r, repl, s, 1)

RECURSIVE LStrip(_)
LStrip(s) == IF s # <<>> /\ Head(s) \in Space THEN LStrip(Tail(s)) ELSE s

RECURSIVE RStrip(_)
RStrip(s) == IF s # <<>> /\ s[Len(s)] \in Space THEN RStrip(SubSeq(s, 1, Len(s) - 1)) ELSE s

\* str.strip()
Strip(s) == LStrip(RStrip(s))

(***************************************************************************)
(* ReceiptAnalyzer.extract_amount                                          *)
(***************************************************************************)
\* r'(-?\s*\d{1,3}(?:[.,]\d{3})*(?:[.,]\d{1,2})?)\s*F' with re.IGNORECASE
AmountPattern ==
    IgnoreCase(Cat(<<
        Grp(Cat(<<Opt(Ch({"-"})), Star(Ch(Space)), Rep(Ch(Digit), 1, 3),
                  Star(Cat(<<Ch({".", ","}), Rep(Ch(Digit), 3, 3)>>)),
                  Opt(Cat(<<Ch({".", ","}), Rep(Ch(Digit), 1, 2)>>))>>)),
        Star(Ch(Space)),
        Ch({"F"})>>))

DigitValue(c) == CHOOSE v \in 0..9 : <<"0","1","2","3","4","5","6","7","8","9">>[v + 1] = c

RECURSIVE ParseInt(_)
\* int(num) of a string of digits
ParseInt(ds) ==
    IF ds = <<>> THEN 0
    ELSE 10 * ParseInt(SubSeq(ds, 1, Len(ds) - 1)) + DigitValue(ds[Len(ds)])

\* re.sub(r'[^\d]', '', amount_str)
DigitsOnly(s) == SelectSeq(s, LAMBDA c : c \in Digit)

AmountMin == 500

AmountMax == 500000

\* Python's None, and a value that is present: an optional value is a sequence of
\* at most one element, so that None differs from the empty string
None == <<>>

Some(v) == <<v>>

Val(o) == o[1]

\* bool(o) for an optional number
TruthyNumber(o) == o # None /\ Val(o) # 0

\* bool(o) for an optional string (a stored record, when present, is always true)
Truthy(o) == o # None /\ Val(o) # <<>>

\* the candidate of a match at start whose digits are num: kept when in range
Candidate(start, num) ==
    IF num # <<>> /\ ParseInt(num) >= AmountMin /\ ParseInt(num) <= AmountMax
    THEN <<[start |-> start, val |-> ParseInt(num)]>>
    ELSE <<>>

\* the (m.start(), val) candidates of the matches ms, in text order
CandidatesOf(raw_text, ms) ==
    Flatten([k \in 1..Len(ms) |->
                Candidate(ms[k].s, DigitsOnly(Strip(GroupText(raw_text, ms[k]))))])

AmountCandidates(raw_text) == CandidatesOf(raw_text, FindIter(AmountPattern, raw_text, 1))

\* min(candidates, key=lambda x: x[0])[1]: the first of the candidates with the smallest start
MinByStart(cs) ==
    IF cs = <<>> THEN None
    ELSE Some(cs[CHOOSE k \in 1..Len(cs) :
                     /\ \A j \in 1..Len(cs) : cs[k].start <= cs[j].start
                     /\ \A j \in 1..(k - 1) : cs[j].start > cs[k].start].val)

\* the amount of the candidate with the smallest start, None without candidates
extract_amount(raw_text) == MinByStart(AmountCandidates(raw_text))

(***************************************************************************)
(* ReceiptAnalyzer: OCR clean-up helpers                                   *)
(***************************************************************************)
\* r'N[0O]UVEAU\s*S[0O][1I]DE'
NouveauSoldePattern ==
    Cat(<<Ch({"N"}), Ch({"0", "O"}), Lit(<<"U","V","E","A","U">>), Star(Ch(Space)),
          Ch({"S"}), Ch({"0", "O"}), Ch({"1", "I"}), Lit(<<"D","E">>)>>)

\* r'\s+'
SpacesPattern == Plus(Ch(Space))

\* upper-case, repair "NOUVEAU SOLDE", collapse white space, strip
_clean_ocr(text) ==
    LET t1 == StrUpper(text)
        t2 == Sub(NouveauSoldePattern, <<"N","O","U","V","E","A","U"," ","S","O","L","D","E">>, t1)
        t3 == Sub(SpacesPattern, <<" ">>, t2)
    IN  Strip(t3)

\* strip, 0 -> o, 1 -> l, "." and "_" -> space, collapse white space, strip
_clean_account_name(raw_name) ==
    LET c1 == Strip(raw_name)
        c2 == ReplaceChar(ReplaceChar(c1, "0", "o"), "1", "l")
        c3 == ReplaceChar(ReplaceChar(c2, ".", " "), "_", " ")
    IN  Strip(Sub(SpacesPattern, <<" ">>, c3))

(***************************************************************************)
(* ReceiptAnalyzer.extract_transaction_id                                  *)
(***************************************************************************)
AlNum == Upper \cup Digit

transaction_id_blacklist ==
    { <<"1","D","D","E","T","R","A","N","S","A","C","T","I","0","N">>,
      <<"I","D","D","E","T","R","A","N","S","A","C","T","I","0","N">>,
      <<"E","N","P","A","R","T","E","N","A","R","I","A","T","A","V","E","C","U","B","A">>,
      <<"T","R","A","N","S","A","C","T","I","O","N","I","D">>,
      <<"T","R","A","N","S","A","C","T","I","0","N","1","D">> }

TidPatterns ==
    << \* r'T[._\s]([A-Z0-9]{14,19})'
       Cat(<<Ch({"T"}), Ch({".", "_"} \cup Space), Grp(Rep(Ch(AlNum), 14, 19))>>),
       \* r'\b(T[ZEH][A-Z0-9]{13,18})\b'
       Cat(<<WordB, Grp(Cat(<<Ch({"T"}), Ch({"Z", "E", "H"}), Rep(Ch(AlNum), 13, 18)>>)), WordB>>),
       \* r'TRANSACTI[0O]N[\s]*[1I]D[\s:]*T?[._\s]?([A-Z0-9]{14,19})'
       Cat(<<Lit(<<"T","R","A","N","S","A","C","T","I">>), Ch({"0", "O"}), Ch({"N"}),
             Star(Ch(Space)), Ch({"1", "I"}), Ch({"D"}), Star(Ch(Space \cup {":"})),
             Opt(Ch({"T"})), Opt(Ch({".", "_"} \cup Space)), Grp(Rep(Ch(AlNum), 14, 19))>>),
       \* r'\b([TV][A-Z0-9]{14,19})\b'
       Cat(<<WordB, Grp(Cat(<<Ch({"T", "V"}), Rep(Ch(AlNum), 14, 19)>>)), WordB>>) >>

TidMinLen == 15

TidMaxLen == 20

\* the identifier a match yields: separators removed, I -> 1, O -> 0, l -> 1,
\* a leading T added when missing
TidOfMatch(clean, m) ==
    LET t1 == SelectSeq(GroupText(clean, m), LAMBDA c : c \notin {".", "_", " "})
        t2 == ReplaceChar(ReplaceChar(ReplaceChar(t1, "I", "1"), "O", "0"), "l", "1")
    IN  IF t2 # <<>> /\ t2[1] = "T" THEN t2 ELSE <<"T">> \o t2

\* the acceptance test without the length test
TidAccepted_without_length(tid) == tid \notin transaction_id_blacklist

TidAccepted(tid) ==
    tid \notin transaction_id_blacklist /\ TidMinLen <= Len(tid) /\ Len(tid) <= TidMaxLen

RECURSIVE TidFromPatterns(_, _), TidOrNext(_, _, _)
\* the patterns from the k-th on, in order
TidFromPatterns(clean, k) ==
    IF k > Len(TidPatterns) THEN None
    ELSE TidOrNext(clean, k, Search(TidPatterns[k], clean))

\* m being the search of the k-th pattern: its identifier if accepted, else the next pattern
TidOrNext(clean, k, m) ==
    IF m.found /\ TidAccepted(TidOfMatch(clean, m))
    THEN Some(TidOfMatch(clean, m))
    ELSE TidFromPatterns(clean, k + 1)

extract_transaction_id(raw_text) == TidFromPatterns(_clean_ocr(raw_text), 1)

(***************************************************************************)
(* ReceiptAnalyzer.extract_account_name                                    *)
(***************************************************************************)
NameLookahead(withAmount) ==
    Ahead(Alt(<<Ch({NL}), Lit(<<"N","E","T">>), Lit(<<"W","A","V","E">>)>>
              \o (IF withAmount
                  THEN <<Cat(<<Ch({"N"}), Ch({"E", "3"}), Ch({"T"})>>),
                         Cat(<<Lit(<<"A","M">>), Ch({"0", "O"}), Lit(<<"U","N","T">>)>>)>>
                  ELSE <<Eol>>)))

NamePatterns ==
    << \* r'S[0O][1Il]D\s*T[0O]\s*([A-Z0-9][A-Z0-9.\s]{2,30}?)(?=\n|NET|WAVE|N[E3]T|AM[0O]UNT)'
       Cat(<<Ch({"S"}), Ch({"0", "O"}), Ch({"1", "I", "l"}), Ch({"D"}), Star(Ch(Space)),
             Ch({"T"}), Ch({"0", "O"}), Star(Ch(Space)),
             Grp(Cat(<<Ch(AlNum), Lazy(Ch(AlNum \cup {"."} \cup Space), 2, 30)>>)),
             NameLookahead(TRUE)>>),
       \* r'SOLD\s+TO\s+([A-Z][A-Z\s]{2,30}?)(?=\n|NET|WAVE|$)'
       Cat(<<Lit(<<"S","O","L","D">>), Plus(Ch(Space)), Lit(<<"T","O">>), Plus(Ch(Space)),
             Grp(Cat(<<Ch(Upper), Lazy(Ch(Upper \cup Space), 2, 30)>>)),
             NameLookahead(FALSE)>>),
       \* r'PA[1I][E3]M[E3]NT\s*([A-Z0-9]{3,25})'
       Cat(<<Lit(<<"P","A">>), Ch({"1", "I"}), Ch({"E", "3"}), Ch({"M"}), Ch({"E", "3"}),
             Lit(<<"N","T">>), Star(Ch(Space)), Grp(Rep(Ch(AlNum), 3, 25))>>),
       \* r'PAIEMENT\s*([A-Z0-9]{3,25})'
       Cat(<<Lit(<<"P","A","I","E","M","E","N","T">>), Star(Ch(Space)), Grp(Rep(Ch(AlNum), 3, 25))>>),
       \* r'D[E3]\s+([A-Z][A-Z0-9\s]+?)\s+T\s+\d'
       Cat(<<Ch({"D"}), Ch({"E", "3"}), Plus(Ch(Space)),
             Grp(Cat(<<Ch(Upper), Lazy(Ch(AlNum \cup Space), 1, -1)>>)),
             Plus(Ch(Space)), Ch({"T"}), Plus(Ch(Space)), Ch(Digit)>>) >>

\* r'\d+$'
TrailingDigitsPattern == Cat(<<Plus(Ch(Digit)), Eol>>)

IsCased(c) == c \in Upper \cup Lower \cup {EAcuteUpper, EAcuteLower}

\* str.title(): a cased letter is upper-cased after an uncased character, lower-cased after a cased one
StrTitle(s) ==
    [k \in 1..Len(s) |->
        IF ~IsCased(s[k]) THEN s[k]
        ELSE IF k > 1 /\ IsCased(s[k - 1]) THEN ToLower(s[k]) ELSE ToUpper(s[k])]

\* 'key in text' for two strings
Contains(text, key) == Search(Lit(key), text).found

\* the fallback table of known names, in insertion order
KnownNames ==
    << [key |-> <<"K","2","M","I","L","O">>, proper |-> <<"K","2","M","i","l","o">>],
       [key |-> <<"K","2","M","I">>, proper |-> <<"K","2","M","i","l","o">>] >>

NameMinLen == 2

NameOfMatch(text_upper, m) ==
    Sub(TrailingDigitsPattern, <<>>, _clean_account_name(Strip(GroupText(text_upper, m))))

RECURSIVE KnownNameFrom(_, _)
KnownNameFrom(text_upper, k) ==
    IF k > Len(KnownNames) THEN None
    ELSE IF Contains(text_upper, KnownNames[k].key) THEN Some(KnownNames[k].proper)
    ELSE KnownNameFrom(text_upper, k + 1)

RECURSIVE NameFromPatterns(_, _), NameOrNext(_, _, _), NameIfLong(_, _, _)
\* the patterns from the k-th on, in order, then the known names
NameFromPatterns(text_upper, k) ==
    IF k > Len(NamePatterns) THEN KnownNameFrom(text_upper, 1)
    ELSE NameOrNext(text_upper, k, Search(NamePatterns[k], text_upper))

\* m being the search of the k-th pattern: its name if long enough, else the next pattern
NameOrNext(text_upper, k, m) ==
    IF m.found THEN NameIfLong(text_upper, k, NameOfMatch(text_upper, m))
    ELSE NameFromPatterns(text_upper, k + 1)

NameIfLong(text_upper, k, clean_name) ==
    IF Len(clean_name) >= NameMinLen THEN Some(StrTitle(clean_name))
    ELSE NameFromPatterns(text_upper, k + 1)

extract_account_name(raw_text) == NameFromPatterns(StrUpper(raw_text), 1)

(***************************************************************************)
(* ReceiptAnalyzer.check_status and check_wave                             *)
(***************************************************************************)
\* C[0O]MP[1LI][E3]T[E3]D
CompletedNoisy ==
    Cat(<<Ch({"C"}), Ch({"0", "O"}), Lit(<<"M","P">>), Ch({"1", "L", "I"}), Ch({"E", "3"}),
          Ch({"T"}), Ch({"E", "3"}), Ch({"D"})>>)

\* [E3]FF[E3]CTU[ÉE]
EffectueNoisy ==
    Cat(<<Ch({"E", "3"}), Lit(<<"F","F">>), Ch({"E", "3"}), Lit(<<"C","T","U">>),
          Ch({EAcuteUpper, "E"})>>)

StatusPatterns ==
    << CompletedNoisy,
       \* r'[✓✔]\s*C[0O]MP[1LI][E3]T[E3]D'
       Cat(<<Ch(CheckMarks), Star(Ch(Space)), CompletedNoisy>>),
       \* r'STATUS[\s.:]*[✓✔]?\s*C[0O]MP[1LI][E3]T[E3]D'
       Cat(<<Lit(<<"S","T","A","T","U","S">>), Star(Ch(Space \cup {".", ":"})),
             Opt(Ch(CheckMarks)), Star(Ch(Space)), CompletedNoisy>>),
       EffectueNoisy,
       \* r'STATUT[\s.:]*[E3]FF[E3]CTU[ÉE]'
       Cat(<<Lit(<<"S","T","A","T","U","T">>), Star(Ch(Space \cup {".", ":"})), EffectueNoisy>>),
       Lit(<<"C","O","M","P","L","E","T","E","D">>),
       \* r'EFFECTU[ÉE]'
       Cat(<<Lit(<<"E","F","F","E","C","T","U">>), Ch({EAcuteUpper, "E"})>>) >>

\* whether any pattern of ps, compiled with re.IGNORECASE, is found in text
AnyPatternFound(ps, text) == \E k \in 1..Len(ps) : Search(IgnoreCase(ps[k]), text).found

check_status(raw_text) == AnyPatternFound(StatusPatterns, raw_text)

AmountWord == Cat(<<Lit(<<"A","M">>), Ch({"0", "O"}), Lit(<<"U","N","T">>)>>)

WaveMarkers ==
    << Lit(<<"W","A","V","E","F","E","E">>),
       \* r'WAVE\s*FEE'
       Cat(<<Lit(<<"W","A","V","E">>), Star(Ch(Space)), Lit(<<"F","E","E">>)>>),
       \* r'WAVE.*AM[0O]UNT'
       Cat(<<Lit(<<"W","A","V","E">>), Star(Dot), AmountWord>>),
       \* r'WAVE.*F[E3][E3]'
       Cat(<<Lit(<<"W","A","V","E">>), Star(Dot), Ch({"F"}), Ch({"E", "3"}), Ch({"E", "3"})>>),
       \* r'PARTENARIAT.*UBA'
       Cat(<<Lit(<<"P","A","R","T","E","N","A","R","I","A","T">>), Star(Dot), Lit(<<"U","B","A">>)>>),
       Lit(<<"U","B","A">>),
       \* r'NET\s*AM[0O]UNT'
       Cat(<<Lit(<<"N","E","T">>), Star(Ch(Space)), AmountWord>>),
       \* r'NETAM[0O]UNT'
       Cat(<<Lit(<<"N","E","T">>), AmountWord>>) >>

check_wave(raw_text) == AnyPatternFound(WaveMarkers, _clean_ocr(raw_text))

(***************************************************************************)
(* OCRProcessor.clean_extracted_text                                       *)
(***************************************************************************)
\* r"(?<=\d)[\s,\.](?=\d{3}\b)"
ThousandsJoinPattern ==
    Cat(<<Behind(Digit), Ch(Space \cup {",", "."}), Ahead(Cat(<<Rep(Ch(Digit), 3, 3), WordB>>))>>)

clean_extracted_text(text) ==
    IF text = <<>> THEN <<>>
    ELSE LET t1 == ReplaceChar(Sub(Lit(<<"\r", NL>>), <<NL>>, text), "\r", NL)
             \* r"[ \t]+"
             t2 == Sub(Plus(Ch({" ", "\t"})), <<" ">>, t1)
             \* r"\n\s*\n"
             t3 == Sub(Cat(<<Ch({NL}), Star(Ch(Space)), Ch({NL})>>), <<NL, NL>>, t2)
             t4 == Sub(Lit(<<"C","F","A","F">>), <<"C","F","A">>,
                       Sub(Lit(<<"X","O","F">>), <<"C","F","A">>, t3))
             t5 == ReplaceChar(ReplaceChar(t4, "en_dash", "-"), "em_dash", "-")
             t6 == Sub(ThousandsJoinPattern, <<>>, t5)
         IN  Strip(t6)

(***************************************************************************)
(* ReceiptAnalyzer.get_user_message                                        *)
(***************************************************************************)
Message(kind, paid, expected, name) == [kind |-> kind, paid |-> paid, expected |-> expected, name |-> name]

\* "✓ Paiement vérifié avec succès !"
MsgSuccess == Message("success", None, None, None)

\* "Image floue ou illisible. ..."
MsgUnreadable == Message("image_unreadable", None, None, None)

\* "Ceci n'est pas un reçu Wave. ..."
MsgNotWave == Message("not_a_wave_receipt", None, None, None)

\* "Impossible de lire le numéro de transaction. ..."
MsgNoTransactionId == Message("transaction_number_unreadable", None, None, None)

\* "Le statut du paiement est illisible. ..."
MsgStatusUnreadable == Message("status_unreadable", None, None, None)

\* "Cette transaction a déjà été utilisée pour une autre inscription"
MsgDuplicate == Message("duplicate_transaction", None, None, None)

\* f"Montant invalide : vous avez payé {int(amount)}F, mais {int(expected_amount)}F sont requis."
MsgAmountMismatch(paid, expected) == Message("amount_mismatch", Some(paid), Some(expected), None)

\* f"Le montant du paiement est illisible. Le montant attendu est {int(expected_amount)}F."
MsgAmountUnreadable(expected) == Message("amount_unreadable", None, Some(expected), None)

\* f"Destinataire incorrect : vous avez payé '{account_name}', mais ... 'K2Milo'."
MsgWrongRecipient(name) == Message("wrong_recipient", None, None, Some(name))

\* "Impossible d'identifier le destinataire. ..."
MsgNoRecipient == Message("recipient_unreadable", None, None, None)

\* "Cette capture n'est pas une preuve de paiement valide. Validation refusée."
MsgGeneric == Message("generic_rejection", None, None, None)

ScoreUnreadable == 30

\* 'needle in error' where error is the list of errors itself: an element equal to needle
InList(errors, needle) == \E k \in 1..Len(errors) : errors[k] = needle

\* any(needle in e for e in errors): an element that contains needle
AnyContains(errors, needle) == \E k \in 1..Len(errors) : Contains(errors[k], needle)

\* get_user_message with the amount rule tried before the duplicate rule
get_user_message_amount_first(is_valid, errors, score, account_name, amount, expected, transaction_id_exist) ==
    IF is_valid THEN MsgSuccess
    ELSE IF score < ScoreUnreadable THEN MsgUnreadable
    ELSE IF AnyContains(errors, <<"M","o","n","t","a","n","t"," ","i","n","c","o","r","r","e","c","t">>)
         THEN IF TruthyNumber(amount)
              THEN MsgAmountMismatch(Val(amount), expected)
              ELSE MsgAmountUnreadable(expected)
    ELSE IF transaction_id_exist # None THEN MsgDuplicate
    ELSE IF AnyContains(errors, <<"N","o","m"," ","d","u"," ","c","o","m","p","t","e"," ","i","n","v","a","l","i","d","e">>)
         THEN IF Truthy(account_name)
              THEN MsgWrongRecipient(Val(account_name))
              ELSE MsgNoRecipient
    ELSE MsgGeneric

get_user_message(is_valid, errors, score, account_name, amount, expected, transaction_id_exist) ==
    IF is_valid THEN MsgSuccess
    ELSE IF score < ScoreUnreadable THEN MsgUnreadable
    ELSE IF Len(errors) = 1 /\ InList(errors, <<"S","i","g","n","a","t","u","r","e"," ","W","a","v","e">>)
         THEN MsgNotWave
    ELSE IF Len(errors) = 1 /\ InList(errors, <<"I","D"," ","d","e"," ","t","r","a","n","s","a","c","t","i","o","n">>)
         THEN MsgNoTransactionId
    ELSE IF Len(errors) = 1 /\ InList(errors, <<"S","t","a","t","u","t">>)
         THEN MsgStatusUnreadable
    ELSE IF transaction_id_exist # None THEN MsgDuplicate
    ELSE IF AnyContains(errors, <<"M","o","n","t","a","n","t"," ","i","n","c","o","r","r","e","c","t">>)
         THEN IF TruthyNumber(amount)
              THEN MsgAmountMismatch(Val(amount), expected)
              ELSE MsgAmountUnreadable(expected)
    ELSE IF AnyContains(errors, <<"N","o","m"," ","d","u"," ","c","o","m","p","t","e"," ","i","n","v","a","l","i","d","e">>)
         THEN IF Truthy(account_name)
              THEN MsgWrongRecipient(Val(account_name))
              ELSE MsgNoRecipient
    ELSE MsgGeneric

(***************************************************************************)
(* ReceiptAnalyzer.analyze_receipt                                         *)
(***************************************************************************)
RECURSIVE IntToStr(_)
IntToStr(n) ==
    IF n < 10 THEN <<<<"0","1","2","3","4","5","6","7","8","9">>[n + 1]>>
    ELSE IntToStr(n \div 10) \o <<<<"0","1","2","3","4","5","6","7","8","9">>[(n % 10) + 1]>>

\* str() of a float with an integral value
FloatStr(n) == IntToStr(n) \o <<".", "0">>

\* str() of an optional string
OptStr(x) == IF x = None THEN <<"N","o","n","e">> ELSE Val(x)

\* the five extractions
Extractions(text) ==
    [amount |-> extract_amount(text),
     transaction_id |-> extract_transaction_id(text),
     account_name |-> extract_account_name(text),
     status_ok |-> check_status(text),
     is_wave |-> check_wave(text)]

\* amount_ok with a tolerance of one franc
amount_ok_with_tolerance(amount, expected) ==
    amount # None /\ Val(amount) - expected \in {-1, 0, 1}

amount_ok(amount, expected) == amount # None /\ Val(amount) = expected

\* account_name in ['K2Milo', "K2MILO", 'K2Milo', 'K2Milo', 'K2MI']
name_ok(account_name) ==
    account_name # None /\ Val(account_name) \in { <<"K","2","M","i","l","o">>, <<"K","2","M","I","L","O">>, <<"K","2","M","I">> }

\* a lookup that never finds a record
find_first_never(regs, transaction_id) == None

\* a lookup that also finds the identifiers a verification already answered valid for
find_first_or_verified(regs, transaction_id) ==
    IF transaction_id # None /\ Val(transaction_id) \in verified_valid
    THEN Some([id |-> 0, transaction_id |-> transaction_id])
    ELSE IF \E r \in regs : r.transaction_id = transaction_id
    THEN Some(CHOOSE r \in regs : r.transaction_id = transaction_id)
    ELSE None

\* prisma.registration.find_first(where={"transaction_id": transaction_id})
find_first_by_transaction_id(regs, transaction_id) ==
    IF \E r \in regs : r.transaction_id = transaction_id
    THEN Some(CHOOSE r \in regs : r.transaction_id = transaction_id)
    ELSE None

\* is_valid without the Ledger lookup
is_valid_without_lookup(transaction_id_exist, amountOk, status_ok, is_wave, nameOk) ==
    amountOk /\ status_ok /\ is_wave /\ nameOk

\* is_valid without the status check
is_valid_without_status(transaction_id_exist, amountOk, status_ok, is_wave, nameOk) ==
    transaction_id_exist = None /\ amountOk /\ is_wave /\ nameOk

is_valid(transaction_id_exist, amountOk, status_ok, is_wave, nameOk) ==
    transaction_id_exist = None /\ amountOk /\ status_ok /\ is_wave /\ nameOk

ScoreTransactionId == 30

ScoreAmount == 30

ScoreName == 20

ScoreStatus == 15

ScoreWave == 5

\* Score with the weights of the name and of the status exchanged
Score_name_status_exchanged(transaction_id, amountOk, nameOk, status_ok, is_wave) ==
    (IF Truthy(transaction_id) THEN ScoreTransactionId ELSE 0)
    + (IF amountOk THEN ScoreAmount ELSE 0)
    + (IF nameOk THEN ScoreStatus ELSE 0)
    + (IF status_ok THEN ScoreName ELSE 0)
    + (IF is_wave THEN ScoreWave ELSE 0)

\* a score that keeps a memory of the answers given before
Score_with_memory(transaction_id, amountOk, nameOk, status_ok, is_wave) ==
    (IF Truthy(transaction_id) /\ verified_valid = {} THEN ScoreTransactionId ELSE 0)
    + (IF amountOk THEN ScoreAmount ELSE 0)
    + (IF nameOk THEN ScoreName ELSE 0)
    + (IF status_ok THEN ScoreStatus ELSE 0)
    + (IF is_wave THEN ScoreWave ELSE 0)

Score(transaction_id, amountOk, nameOk, status_ok, is_wave) ==
    (IF Truthy(transaction_id) THEN ScoreTransactionId ELSE 0)
    + (IF amountOk THEN ScoreAmount ELSE 0)
    + (IF nameOk THEN ScoreName ELSE 0)
    + (IF status_ok THEN ScoreStatus ELSE 0)
    + (IF is_wave THEN ScoreWave ELSE 0)

ErrTransactionId == <<"I","D"," ","d","e"," ","t","r","a","n","s","a","c","t","i","o","n"," ","m","a","n","q","u","a","n","t"," ","o","u"," ","i","n","v","a","l","i","d","e">>

\* f"Montant incorrect : {amount or '?'}F ≠ {expected_amount}F"
ErrAmount(amount, expected) ==
    <<"M","o","n","t","a","n","t"," ","i","n","c","o","r","r","e","c","t"," ",":"," ">>
    \o (IF TruthyNumber(amount) THEN FloatStr(Val(amount)) ELSE <<"?">>)
    \o <<"F"," ","not_equal"," ">> \o FloatStr(expected) \o <<"F">>

ErrStatus == <<"S","t","a","t","u","t"," ","n","o","n"," ","c","o","n","f","i","r","m",EAcuteLower," ","(","C","o","m","p","l","e","t","e","d","/","E","f","f","e","c","t","u",EAcuteLower,")">>

ErrWave == <<"S","i","g","n","a","t","u","r","e"," ","W","a","v","e"," ","m","a","n","q","u","a","n","t","e">>

\* f"Nom du compte invalide : '{account_name}' (doit être 'K2Milo')"
ErrName(account_name) ==
    <<"N","o","m"," ","d","u"," ","c","o","m","p","t","e"," ","i","n","v","a","l","i","d","e"," ",":"," ","'">>
    \o OptStr(account_name)
    \o <<"'"," ","(","d","o","i","t"," ","e_circ","t","r","e"," ","'","K","2","M","i","l","o","'",")">>

\* f"Transaction id exist : {transaction_id}"
ErrDuplicate(transaction_id) ==
    <<"T","r","a","n","s","a","c","t","i","o","n"," ","i","d"," ","e","x","i","s","t"," ",":"," ">>
    \o OptStr(transaction_id)

\* the technical reasons, in the order the source appends them
Errors(x, amountOk, nameOk, expected, transaction_id_exist) ==
    (IF ~Truthy(x.transaction_id) THEN <<ErrTransactionId>> ELSE <<>>)
    \o (IF ~amountOk THEN <<ErrAmount(x.amount, expected)>> ELSE <<>>)
    \o (IF ~x.status_ok THEN <<ErrStatus>> ELSE <<>>)
    \o (IF ~x.is_wave THEN <<ErrWave>> ELSE <<>>)
    \o (IF ~nameOk THEN <<ErrName(x.account_name)>> ELSE <<>>)
    \o (IF transaction_id_exist # None THEN <<ErrDuplicate(x.transaction_id)>> ELSE <<>>)

DebugTextMax == 1000

\* the verdict on the extractions x of text
Verdict(x, text, expected, regs) ==
    LET amountOk == amount_ok(x.amount, expected)
        nameOk   == name_ok(x.account_name)
        exist    == find_first_by_transaction_id(regs, x.transaction_id)
        valid    == is_valid(exist, amountOk, x.status_ok, x.is_wave, nameOk)
        score    == Score(x.transaction_id, amountOk, nameOk, x.status_ok, x.is_wave)
        errors   == Errors(x, amountOk, nameOk, expected, exist)
    IN  [isValid |-> valid,
         score |-> score,
         message |-> get_user_message(valid, errors, score, x.account_name, x.amount, expected, exist),
         extractedData |-> [amount |-> x.amount, transactionId |-> x.transaction_id,
                            accountName |-> x.account_name,
                            status |-> IF x.status_ok THEN Some("Completed") ELSE None],
         checks |-> [hasTransactionId |-> Truthy(x.transaction_id),
                     hasCorrectAmount |-> amountOk,
                     hasStatus |-> x.status_ok,
                     isWaveReceipt |-> x.is_wave,
                     hasValidAccountName |-> nameOk],
         errors |-> errors,
         warnings |-> <<>>,
         debugText |-> SubSeq(text, 1,
                              IF Len(text) < DebugTextMax THEN Len(text) ELSE DebugTextMax)]

\* analyze_receipt: the extractions, then the verdict
analyze_receipt(text, expected, regs) == Verdict(Extractions(text), text, expected, regs)

(***************************************************************************)
(* The receipts submitted: each is the text the OCR reads from one photo,  *)
(* made of the lines a Wave receipt shows, any of which may be missing.    *)
(***************************************************************************)
\* the amount line, with the amount it shows
AmountLines ==
    << [text |-> <<"M","o","n","t","a","n","t",":"," ","6","0","0","0","F">>, val |-> 6000],
       [text |-> <<"M","o","n","t","a","n","t",":"," ","6",".","0","0","0","F">>, val |-> 6000],
       [text |-> <<"M","o","n","t","a","n","t",":"," ","6",",","0","0","0","F">>, val |-> 6000],
       [text |-> <<"M","o","n","t","a","n","t",":"," ","5","0","0","0","F">>, val |-> 5000],
       [text |-> <<"M","o","n","t","a","n","t",":"," ","5",".","0","0","0","F">>, val |-> 5000] >>

\* the 17-character identifier of the receipt
ReceiptTid == <<"T","V","4","F","V","U","R","Z","F","R","0","P","G","F","3","M","Q">>

\* the identifier of some other payment
OtherTid == <<"T","Z","7","K","Q","2","M","9","X","W","4","L","P","8","R","A","B">>

TidLines == << <<"I","D",":"," ">> \o ReceiptTid >>

\* the recipient line: the expected recipient, another one
NameLines ==
    << <<"S","o","l","d"," ","t","o"," ","K","2","M","I","L","O">>,
       <<"S","o","l","d"," ","t","o"," ","A","X","E","L"," ","K">> >>

StatusLine == <<"C","o","m","p","l","e","t","e","d">>

WaveLine == <<"W","a","v","e","F","e","e">>

\* which lines the photo shows (0: the line is missing)
Scenarios ==
    [amt : 0..Len(AmountLines), tid : 0..Len(TidLines), name : 0..Len(NameLines),
     status : BOOLEAN, wave : BOOLEAN]

RECURSIVE JoinLines(_)
JoinLines(ls) ==
    IF ls = <<>> THEN <<>>
    ELSE IF Len(ls) = 1 THEN ls[1]
    ELSE ls[1] \o <<NL>> \o JoinLines(Tail(ls))

\* the text on the photo
ReceiptText(sc) ==
    JoinLines((IF sc.amt = 0 THEN <<>> ELSE <<AmountLines[sc.amt].text>>)
              \o (IF sc.tid = 0 THEN <<>> ELSE <<TidLines[sc.tid]>>)
              \o (IF sc.name = 0 THEN <<>> ELSE <<NameLines[sc.name]>>)
              \o (IF sc.status THEN <<StatusLine>> ELSE <<>>)
              \o (IF sc.wave THEN <<WaveLine>> ELSE <<>>))

\* the amounts the caller may expect
ExpectedAmounts == {5999, 6000, 6001}

\* the most registrations the Ledger starts with
MaxStored == 2

\* the registrations the Ledger may hold: paid with this receipt, paid with another,
\* created by an administrator without a transaction identifier
PossibleRegistrations ==
    { [id |-> 1, transaction_id |-> Some(ReceiptTid)],
      [id |-> 2, transaction_id |-> Some(OtherTid)],
      [id |-> 3, transaction_id |-> None] }

\* a slot no request occupies
IdleCall ==
    [handler |-> "none", pc |-> "idle", receipt |-> None, expected |-> None, text |-> None,
     transaction_id |-> None, seen |-> {}, lookups |-> 0, result |-> None, status |-> 0]

\* the most requests in flight together
MaxCalls == 2

Calls == 1..MaxCalls

\* no request on the dortoirs followed step by step
NoRequests ==
    /\ requests = <<>>
    /\ dortoirs = <<>>

\* no request but the one verify_receipt
NoCalls ==
    /\ calls = [c \in Calls |-> IdleCall]
    /\ verified_valid = {}
    /\ current_count = 0
    /\ NoRequests

\* no preprocess_image call followed step by step
NoPreprocess ==
    /\ pre_pc = "idle"
    /\ pil_image = None
    /\ img = None
    /\ failed_step = None
    /\ pre = None

\* no process_image call followed step by step
NoOcr ==
    /\ ocr_pc = "idle"
    /\ strategy_index = 1
    /\ candidates = <<>>
    /\ passes = <<>>
    /\ NoPreprocess

Init ==
    /\ scenario \in Scenarios
    /\ registrations \in {R \in SUBSET PossibleRegistrations : Cardinality(R) <= MaxStored}
    /\ extracted_text = None
    /\ extracted = None
    /\ expected_amount = None
    /\ result = None
    /\ pc = "received"
    /\ NoCalls
    /\ NoOcr

\* verify_receipt, up to the text: process_image reads the lines of the photo and cleans
\* them; with no text left it raises, and the request ends with a server error
ProcessImage ==
    /\ pc = "received"
    /\ extracted_text' = Some(clean_extracted_text(ReceiptText(scenario)))
    /\ pc' = IF Val(extracted_text') = <<>> THEN "failed" ELSE "read"
    /\ UNCHANGED <<scenario, extracted, expected_amount, registrations, result, workflow_vars, ocr_vars>>

\* analyze_receipt, up to the Ledger lookup: the five extractions
ExtractFields ==
    /\ pc = "read"
    /\ extracted' = Some(Extractions(Val(extracted_text)))
    /\ pc' = "extracted"
    /\ UNCHANGED <<scenario, extracted_text, expected_amount, registrations, result, workflow_vars, ocr_vars>>

\* analyze_receipt, from the Ledger lookup on: the verdict for the expected amount of the request
AnalyzeReceipt ==
    /\ pc = "extracted"
    /\ \E expected \in ExpectedAmounts :
          /\ expected_amount' = Some(expected)
          /\ result' = Some(Verdict(Val(extracted), Val(extracted_text), expected, registrations))
    /\ pc' = "responded"
    /\ UNCHANGED <<scenario, extracted_text, extracted, registrations, workflow_vars, ocr_vars>>

Next == ProcessImage \/ ExtractFields \/ AnalyzeReceipt

Spec == Init /\ [][Next]_vars

(***************************************************************************)
(* The verdict, read from the state of an answered request                 *)
(***************************************************************************)
Responded == pc = "responded"

\* the extracted amount is the expected amount of the request
AmountMatches == Val(extracted).amount = Some(Val(expected_amount))

\* the extracted account name is one of the accepted recipients
RecipientAccepted ==
    Val(extracted).account_name \in
        { Some(<<"K","2","M","i","l","o">>), Some(<<"K","2","M","I","L","O">>), Some(<<"K","2","M","I">>) }

\* a stored registration holds the extracted transaction identifier
LedgerHoldsTid == \E r \in registrations : r.transaction_id = Val(extracted).transaction_id

TidExtracted == Val(extracted).transaction_id # None

\* the photo that shows every line, with the amount line k
FullReceipt(k) == [amt |-> k, tid |-> 1, name |-> 1, status |-> TRUE, wave |-> TRUE]

\* C1: analyze_receipt returns isValid = true if and only if the five hard checks hold:
\* the extracted amount equals the expected amount, the extracted account name is an
\* accepted recipient, the completed status is detected, a provider signature is
\* detected, and no stored registration holds the extracted transaction identifier;
\* the score plays no part.
C1_IsValidIffFiveChecks ==
    Responded =>
        (Val(result).isValid <=>
            (/\ AmountMatches
             /\ RecipientAccepted
             /\ Val(extracted).status_ok
             /\ Val(extracted).is_wave
             /\ ~LedgerHoldsTid))

\* a receipt accepted, its five checks passing
C1_Witness ==
    /\ Responded
    /\ Val(result).isValid
    /\ TidExtracted /\ AmountMatches /\ RecipientAccepted /\ ~LedgerHoldsTid
    /\ Val(extracted).status_ok /\ Val(extracted).is_wave

\* C2: scenario A: the text with "Montant: 6000F", the 17-character identifier, the
\* accepted recipient, "Completed" and the signature, for an expected amount of 6000
\* and an empty Ledger, is answered isValid = true with a score of 100.
C2_ScenarioA ==
    (Responded /\ scenario = FullReceipt(1) /\ Val(expected_amount) = 6000 /\ registrations = {})
        => (Val(result).isValid /\ Val(result).score = 100)

\* C3: when a stored registration holds the extracted transaction identifier, the
\* answer is isValid = false, also when amount, recipient, status and signature all
\* match, and the message is the duplicate-transaction message.
C3_DuplicateRefused ==
    (Responded /\ TidExtracted /\ LedgerHoldsTid)
        => (~Val(result).isValid /\ Val(result).message = MsgDuplicate)

\* a duplicate whose amount, recipient, status and signature all match
C3_Witness ==
    /\ Responded
    /\ TidExtracted /\ LedgerHoldsTid
    /\ AmountMatches /\ RecipientAccepted
    /\ Val(extracted).status_ok /\ Val(extracted).is_wave
    /\ Val(result).message = MsgDuplicate

\* C4: the amount check passes only when the extracted amount is present and exactly
\* the expected amount; any other amount, off by one included, fails the check and
\* makes the answer invalid.
C4_AmountExactMatch ==
    Responded =>
        /\ (Val(result).checks.hasCorrectAmount <=> AmountMatches)
        /\ (~AmountMatches => ~Val(result).isValid)

\* an amount one franc away from the expected amount, every other check passing
C4_Witness ==
    /\ Responded
    /\ Val(extracted).amount # None
    /\ Val(Val(extracted).amount) - Val(expected_amount) \in {-1, 1}
    /\ TidExtracted /\ ~LedgerHoldsTid /\ RecipientAccepted
    /\ Val(extracted).status_ok /\ Val(extracted).is_wave
    /\ ~Val(result).checks.hasCorrectAmount
    /\ ~Val(result).isValid

\* C5: whenever the amount, the transaction identifier or the account name could not
\* be extracted, analyze_receipt answers normally, with isValid = false.
C5_AbsentFieldInvalid ==
    (/\ Responded
     /\ \/ Val(extracted).amount = None
        \/ Val(extracted).transaction_id = None
        \/ Val(extracted).account_name = None)
        => ~Val(result).isValid

\* C6: the score is 30 for an extracted transaction identifier, plus 30 for the amount
\* check, 20 for the recipient check, 15 for the status and 5 for the signature; it lies
\* in 0..100 and is 100 exactly when the five signals are present, also when the
\* answer is invalid.
C6_ScoreIsWeightedSum ==
    Responded =>
        LET x == Val(extracted)
            sum == (IF TidExtracted THEN 30 ELSE 0)
                   + (IF AmountMatches THEN 30 ELSE 0)
                   + (IF RecipientAccepted THEN 20 ELSE 0)
                   + (IF x.status_ok THEN 15 ELSE 0)
                   + (IF x.is_wave THEN 5 ELSE 0)
        IN  /\ Val(result).score = sum
            /\ Val(result).score \in 0..100
            /\ (Val(result).score = 100
                <=> (TidExtracted /\ AmountMatches /\ RecipientAccepted /\ x.status_ok /\ x.is_wave))

\* a score of 100 on an invalid answer: a duplicate
C6_Witness ==
    /\ Responded
    /\ Val(result).score = 100
    /\ ~Val(result).isValid
    /\ LedgerHoldsTid

\* C7: from a text with a labelled amount followed by F, extract_amount recovers the
\* amount shown, whatever the thousands separator: "6.000F", "6,000F" and "6000F" all
\* give 6000.
C7_AmountRecovered ==
    (pc \in {"extracted", "responded"} /\ scenario.amt # 0)
        => Val(extracted).amount = Some(AmountLines[scenario.amt].val)

\* C8: scenario B: the receipt of scenario A with an amount of 5000, for an expected
\* amount of 6000 and an empty Ledger, is answered isValid = false with the
\* amount-mismatch message naming 5000 and 6000.
C8_ScenarioB ==
    (Responded /\ scenario = FullReceipt(4) /\ Val(expected_amount) = 6000 /\ registrations = {})
        => (~Val(result).isValid /\ Val(result).message = MsgAmountMismatch(5000, 6000))

\* C9: when exactly one check failed, the message is the single-cause one: not a Wave
\* receipt when only the signature is missing, transaction number unreadable when
\* only the identifier is, status unreadable when only the status is.
C9_SingleCauseMessages ==
    Responded =>
        LET x == Val(extracted)
            others == AmountMatches /\ RecipientAccepted /\ ~LedgerHoldsTid
        IN  /\ (others /\ TidExtracted /\ x.status_ok /\ ~x.is_wave)
                   => Val(result).message = MsgNotWave
            /\ (others /\ ~TidExtracted /\ x.status_ok /\ x.is_wave)
                   => Val(result).message = MsgNoTransactionId
            /\ (others /\ TidExtracted /\ ~x.status_ok /\ x.is_wave)
                   => Val(result).message = MsgStatusUnreadable

\* C10: the message follows a fixed order: success exactly when isValid; otherwise
\* image unreadable for a score below 30; else the duplicate message when the Ledger
\* holds the identifier; else the amount message when the amount check failed; else
\* the recipient message when the recipient check failed; else the generic rejection.
\* (The cases of a single failed check follow the same order.)
C10_MessagePriority ==
    Responded =>
        LET x == Val(extracted)
            r == Val(result)
            expected == Val(expected_amount)
        IN  /\ (r.message = MsgSuccess <=> r.isValid)
            /\ r.message =
                 IF r.isValid THEN MsgSuccess
                 ELSE IF r.score < 30 THEN MsgUnreadable
                 ELSE IF LedgerHoldsTid THEN MsgDuplicate
                 ELSE IF ~AmountMatches
                      THEN IF x.amount # None
                           THEN MsgAmountMismatch(Val(x.amount), expected)
                           ELSE MsgAmountUnreadable(expected)
                 ELSE IF ~RecipientAccepted
                      THEN IF x.account_name # None
                           THEN MsgWrongRecipient(Val(x.account_name))
                           ELSE MsgNoRecipient
                 ELSE MsgGeneric

\* a duplicate with a wrong amount and a wrong recipient: the duplicate message wins
C10_Witness ==
    /\ Responded
    /\ TidExtracted /\ LedgerHoldsTid
    /\ Val(extracted).amount # None /\ ~AmountMatches
    /\ Val(extracted).account_name # None /\ ~RecipientAccepted
    /\ Val(result).message = MsgDuplicate


(***************************************************************************)
(* The registration workflow: concurrent verify_receipt and                *)
(* create_registration requests on one Ledger                              *)
(***************************************************************************)
\* the photos submitted for verification: a receipt paid to the expected recipient and
\* a photo with no text
WorkflowReceipts ==
    << FullReceipt(2), [amt |-> 0, tid |-> 0, name |-> 0, status |-> FALSE, wave |-> FALSE] >>

\* process_image on each of these photos
PaidReceiptText == clean_extracted_text(ReceiptText(WorkflowReceipts[1]))

BlankPhotoText == clean_extracted_text(ReceiptText(WorkflowReceipts[2]))

WorkflowText(photo) == IF photo = 1 THEN PaidReceiptText ELSE BlankPhotoText

\* the five extractions of analyze_receipt on the text read
PaidReceiptFields == CHOOSE x \in {Extractions(t) : t \in {PaidReceiptText}} : TRUE

BlankPhotoFields == CHOOSE x \in {Extractions(t) : t \in {BlankPhotoText}} : TRUE

WorkflowFields(photo) == IF photo = 1 THEN PaidReceiptFields ELSE BlankPhotoFields

\* the paymentInfo.transactionId values a client may post
PostedTransactionIds == {ReceiptTid, OtherTid}

\* the dortoir's capacity
DortoirCapacity == 1

\* the id the database gives the record created by request c
NewId(c) == Cardinality(PossibleRegistrations) + c

\* what the client reads of the JSON answer
Answer(v) ==
    [isValid |-> v.isValid, score |-> v.score,
     transactionId |-> v.extractedData.transactionId, message |-> v.message]

\* verify_receipt, the OCR: process_image returns the cleaned text; with no text it
\* raises and the request ends with status 500
Processed(call, text) ==
    IF text = <<>>
    THEN [call EXCEPT !.pc = "responded", !.status = 500]
    ELSE [call EXCEPT !.pc = "read", !.text = Some(text)]

\* verify_receipt, the analysis: v being the verdict analyze_receipt computed with one
\* lookup of the identifier in the Ledger regs
Analyzed(call, v, regs) ==
    [call EXCEPT !.pc = "analyzed", !.seen = regs, !.lookups = call.lookups + 1,
                 !.result = Some(Answer(v))]

InitWorkflow ==
    /\ registrations \in {R \in SUBSET PossibleRegistrations : Cardinality(R) <= MaxStored}
    /\ scenario = WorkflowReceipts[1]
    /\ extracted_text = None
    /\ extracted = None
    /\ expected_amount = None
    /\ result = None
    /\ pc = "received"
    /\ NoCalls
    /\ NoOcr

\* a verify_receipt request arrives with its photo and its expected amount
ReceiveVerify(c) ==
    /\ calls[c].pc = "idle"
    /\ \E photo \in DOMAIN WorkflowReceipts, expected \in ExpectedAmounts :
          calls' = [calls EXCEPT ![c] = [@ EXCEPT !.handler = "verify_receipt", !.pc = "received",
                                                  !.receipt = Some(photo), !.expected = Some(expected)]]
    /\ UNCHANGED <<dortoir_vars, receipt_vars, registrations, verified_valid, current_count, ocr_vars>>

\* verify_receipt: process_image
ProcessCall(c) ==
    /\ calls[c].handler = "verify_receipt"
    /\ calls[c].pc = "received"
    /\ calls' = [calls EXCEPT ![c] = Processed(@, WorkflowText(Val(@.receipt)))]
    /\ UNCHANGED <<dortoir_vars, receipt_vars, registrations, verified_valid, current_count, ocr_vars>>

\* an analysis that reserves the identifier in the Ledger
AnalyzeAndReserve(c) ==
    /\ calls[c].handler = "verify_receipt"
    /\ calls[c].pc = "read"
    /\ \E x \in {WorkflowFields(Val(calls[c].receipt))} :
          \E v \in {Verdict(x, Val(calls[c].text), Val(calls[c].expected), registrations)} :
             /\ calls' = [calls EXCEPT ![c] = Analyzed(@, v, registrations)]
             /\ registrations' = registrations \cup {[id |-> 0, transaction_id |-> x.transaction_id]}
    /\ UNCHANGED <<dortoir_vars, receipt_vars, verified_valid, current_count, ocr_vars>>

\* verify_receipt: analyze_receipt with its Ledger lookup
AnalyzeCall(c) ==
    /\ calls[c].handler = "verify_receipt"
    /\ calls[c].pc = "read"
    /\ \E x \in {WorkflowFields(Val(calls[c].receipt))} :
          \E v \in {Verdict(x, Val(calls[c].text), Val(calls[c].expected), registrations)} :
             calls' = [calls EXCEPT ![c] = Analyzed(@, v, registrations)]
    /\ UNCHANGED <<dortoir_vars, receipt_vars, registrations, verified_valid, current_count, ocr_vars>>

\* verify_receipt: the JSON answer leaves with status 200
RespondVerify(c) ==
    /\ calls[c].handler = "verify_receipt"
    /\ calls[c].pc = "analyzed"
    /\ calls' = [calls EXCEPT ![c] = [@ EXCEPT !.pc = "responded", !.status = 200]]
    /\ verified_valid' = verified_valid \cup
          (IF Val(calls[c].result).isValid /\ Val(calls[c].result).transactionId # None
           THEN {Val(Val(calls[c].result).transactionId)} ELSE {})
    /\ UNCHANGED <<dortoir_vars, receipt_vars, registrations, current_count, ocr_vars>>

\* a create_registration request arrives with the JSON of the front
ReceiveCreate(c) ==
    /\ calls[c].pc = "idle"
    /\ \E posted \in PostedTransactionIds :
          calls' = [calls EXCEPT ![c] = [@ EXCEPT !.handler = "create_registration", !.pc = "dortoir",
                                                  !.transaction_id = Some(posted)]]
    /\ UNCHANGED <<dortoir_vars, receipt_vars, registrations, verified_valid, current_count, ocr_vars>>

\* create_registration: the dortoir must exist, have room and be of the person's gender;
\* then generate_matricule
CheckDortoir(c) ==
    /\ calls[c].handler = "create_registration"
    /\ calls[c].pc = "dortoir"
    /\ \E found \in BOOLEAN, same_gender \in BOOLEAN :
          calls' = [calls EXCEPT ![c] =
                       IF ~found THEN [@ EXCEPT !.pc = "responded", !.status = 404]
                       ELSE IF current_count >= DortoirCapacity THEN [@ EXCEPT !.pc = "responded", !.status = 409]
                       ELSE IF ~same_gender THEN [@ EXCEPT !.pc = "responded", !.status = 400]
                       ELSE [@ EXCEPT !.pc = "check_transaction"]]
    /\ UNCHANGED <<dortoir_vars, receipt_vars, registrations, verified_valid, current_count, ocr_vars>>

\* create_registration: find_first on the posted identifier, 409 when a record holds it
CheckTransactionId(c) ==
    /\ calls[c].handler = "create_registration"
    /\ calls[c].pc = "check_transaction"
    /\ calls' = [calls EXCEPT ![c] =
                    IF find_first_by_transaction_id(registrations, @.transaction_id) # None
                    THEN [@ EXCEPT !.pc = "responded", !.status = 409, !.lookups = @ + 1]
                    ELSE [@ EXCEPT !.pc = "create", !.lookups = @ + 1]]
    /\ UNCHANGED <<dortoir_vars, receipt_vars, registrations, verified_valid, current_count, ocr_vars>>

\* create_registration: prisma.registration.create with the posted identifier
CreateRecord(c) ==
    /\ calls[c].handler = "create_registration"
    /\ calls[c].pc = "create"
    /\ registrations' = registrations \cup {[id |-> NewId(c), transaction_id |-> calls[c].transaction_id]}
    /\ calls' = [calls EXCEPT ![c] = [@ EXCEPT !.pc = "increment"]]
    /\ UNCHANGED <<dortoir_vars, receipt_vars, verified_valid, current_count, ocr_vars>>

\* create_registration: the dortoir's counter is incremented and the record returned
IncrementDortoir(c) ==
    /\ calls[c].handler = "create_registration"
    /\ calls[c].pc = "increment"
    /\ current_count' = current_count + 1
    /\ calls' = [calls EXCEPT ![c] = [@ EXCEPT !.pc = "responded", !.status = 201]]
    /\ UNCHANGED <<dortoir_vars, receipt_vars, registrations, verified_valid, ocr_vars>>

NextWorkflow ==
    \E c \in Calls :
        \/ ReceiveVerify(c)
        \/ ProcessCall(c)
        \/ AnalyzeCall(c)
        \/ RespondVerify(c)
        \/ ReceiveCreate(c)
        \/ CheckDortoir(c)
        \/ CheckTransactionId(c)
        \/ CreateRecord(c)
        \/ IncrementDortoir(c)

SpecWorkflow == InitWorkflow /\ [][NextWorkflow]_vars


(***************************************************************************)
(* The registration workflow, read from the state of the requests          *)
(***************************************************************************)
\* the records create_registration wrote since the start
Created == {r \in registrations : r.id > Cardinality(PossibleRegistrations)}

\* request c is a verify_receipt whose verdict is computed
Verified(c) ==
    calls[c].handler = "verify_receipt" /\ calls[c].pc \in {"analyzed", "responded"} /\ calls[c].result # None

\* the records of a Ledger that hold the identifier
Holding(regs, transaction_id) == {r \in regs : r.transaction_id = Some(transaction_id)}

\* C11: insert after valid: every registration create_registration wrote holds a
\* transaction identifier for which a verify_receipt call answered isValid = true
\* before; no registration is stored whose identifier was never verified valid.
C11_InsertAfterValid ==
    \A r \in Created : r.transaction_id # None /\ Val(r.transaction_id) \in verified_valid

\* C12: uniqueness at commit: whatever the interleaving of the create_registration
\* calls, no two stored registrations hold the same transaction identifier.
C12_UniqueAtCommit ==
    \A r, s \in registrations :
        (r.transaction_id # None /\ r.transaction_id = s.transaction_id) => r.id = s.id


\* the paid receipt submitted with the amount it shows
PaidAsExpected(c) ==
    calls[c].receipt = Some(1) /\ calls[c].expected = Some(AmountLines[WorkflowReceipts[1].amt].val)

\* C13: check-then-act race in the core: the core keeps nothing of the verdicts it
\* gave; as long as no registration holding the identifier is stored, every
\* verification of the paid receipt is answered isValid = true, whatever the other
\* verifications of the same identifier in flight or already answered, so that two
\* concurrent verifications both read the identifier as not yet used and both
\* answer valid before either registration is written.
C13_CoreDoesNotPreventRace ==
    \A c \in Calls :
        (Verified(c) /\ PaidAsExpected(c) /\ Holding(registrations, ReceiptTid) = {})
            => Val(calls[c].result).isValid

\* two verifications of the same identifier both answered valid, both having read a
\* Ledger without it, and no registration written
C13_Witness ==
    \E c, d \in Calls :
        /\ c # d
        /\ \A e \in {c, d} :
              /\ Verified(e) /\ calls[e].pc = "responded"
              /\ Val(calls[e].result).transactionId = Some(ReceiptTid)
              /\ Val(calls[e].result).isValid
              /\ Holding(calls[e].seen, ReceiptTid) = {}
        /\ Holding(registrations, ReceiptTid) = {}
        /\ Created = {}

\* a step of request c as a verify_receipt leaves the Ledger as it is and has made
\* one lookup once the verdict is there, none before
VerifyStepReadsOnly(c) ==
    (calls'[c].handler = "verify_receipt" /\ calls'[c] # calls[c])
        => /\ registrations' = registrations
           /\ calls'[c].lookups = (IF calls'[c].result # None THEN 1 ELSE 0)

\* C14: the verification only reads the Ledger: every step of a verify_receipt
\* call leaves the stored registrations unchanged, whatever the verdict or the
\* error, and the call makes a single lookup by transaction identifier.
C14_VerifyOnlyReads == [][\A c \in Calls : VerifyStepReadsOnly(c)]_vars

\* two verifications answered over a Ledger that holds registrations, one with a
\* verdict after one lookup, one with the error of a photo without text
C14_Witness ==
    \E c, d \in Calls :
        /\ calls[c].handler = "verify_receipt" /\ calls[c].status = 200 /\ calls[c].lookups = 1
        /\ calls[d].handler = "verify_receipt" /\ calls[d].status = 500 /\ calls[d].lookups = 0
        /\ calls[c].seen # {} /\ registrations = calls[c].seen

FieldTidLines ==
    << <<"I","D",":"," ","T","V","4","F","V","U","R","Z","F","R","0","P","G","F","3","M","Q">>,
       <<"I","D",":"," ","T",".","V","4","F","V","U","R","Z","F","R","0","P","G","F","3","M","Q">>,
       <<"I","D",":"," ","V","4","F","V","U","R","Z","F","R","0","P","G","F","3","M">>,
       <<"I","D",":"," ","T","Z","7","K","I","O","2","M","9","X","W","4","L","P","8","R","A">>,
       <<"i","d",":"," ","t","v","4","f","v","u","r","z","f","r","0","p","g","f","3","m","q">>,
       <<"T",".","1","D","D","E","T","R","A","N","S","A","C","T","I","0","N">>,
       <<"T"," ","E","N","P","A","R","T","E","N","A","R","I","A","T","A","V","E","C","U","B","A">>,
       <<"T","R","A","N","S","A","C","T","I","O","N","I","D">>,
       <<"I","D",":"," ","T","V","4","F","V","U","R","Z","F","R","0","P","G","F","3","M","Q","A","B","C","D","E">>,
       <<"I","D",":"," ","T","V","4","F","V","U","R","Z","F","R","0","P","G">>,
       <<"T","R","A","N","S","A","C","T","I","0","N"," ","1","D",":"," ","Z","7","K","Q","2","M","9","X","W","4","L","P","8","R","A","B">>,
       <<"I","D",":"," ","V","4","F","V","U","R","Z","F","R","0","P","G","F","3","M","Q","A","B","C","D">>,
       <<"T",".","T","A","B","C","D","E","F","G","H","1","J","K","L","M","N","0","P","Q","R">> >>

\* the lines an OCR reads for the recipient
FieldNameLines ==
    << <<"S","o","l","d"," ","t","o"," ","K","2","M","I","L","O">>,
       <<"S","o","l","d"," ","t","o"," ","A","X","E","L"," ","K">>,
       <<"S","0","1","d"," ","t","0"," ","K","2","M","I","L","O">>,
       <<"S","0","1","d"," ","t","0"," ","K","2","M","I">>,
       <<"P","a","i","e","m","e","n","t"," ","K","2","M","I">> >>

\* a line of the list, or none
LineChoices(ls) == {<<>>} \cup {<<ls[k]>> : k \in DOMAIN ls}

\* the texts read: the amount, an identifier line, a recipient line, the status, the signature
FieldTexts ==
    { JoinLines(<<AmountLines[2].text>> \o tid \o name \o <<StatusLine, WaveLine>>) :
         tid \in LineChoices(FieldTidLines), name \in LineChoices(FieldNameLines) }

\* verify_receipt when process_image has returned its cleaned text, over an empty Ledger
InitFields ==
    /\ \E t \in FieldTexts : extracted_text = Some(clean_extracted_text(t))
    /\ scenario = None
    /\ registrations = {}
    /\ extracted = None
    /\ expected_amount = None
    /\ result = None
    /\ pc = "read"
    /\ NoCalls
    /\ NoOcr

NextFields == ExtractFields \/ AnalyzeReceipt

SpecFields == InitFields /\ [][NextFields]_vars


(***************************************************************************)
(* The extractions, read from the state of a request                       *)
(***************************************************************************)
\* tid starts with T, has 15 to 20 characters, all upper-case letters or digits, and
\* is not in the blacklist
WellFormedTid(tid) ==
    /\ 15 <= Len(tid) /\ Len(tid) <= 20
    /\ tid[1] = "T"
    /\ \A k \in 1..Len(tid) : tid[k] \in Upper \cup Digit
    /\ tid \notin transaction_id_blacklist

\* m being the search of a pattern in the cleaned text: it found a well-formed identifier
WellFormedCandidate(clean, m) == m.found /\ WellFormedTid(TidOfMatch(clean, m))

\* C16: the transaction identifier extract_transaction_id returns starts with T, has
\* 15 to 20 characters, only upper-case letters and digits, and is not in the
\* blacklist; when no pattern finds a candidate with all of these the result is absent.
C16_TidWellFormed ==
    extracted # None =>
        /\ Val(extracted).transaction_id # None => WellFormedTid(Val(Val(extracted).transaction_id))
        /\ (\A k \in DOMAIN TidPatterns :
               ~WellFormedCandidate(_clean_ocr(Val(extracted_text)),
                                    Search(TidPatterns[k], _clean_ocr(Val(extracted_text)))))
               => Val(extracted).transaction_id = None

\* an identifier returned with its letters I and O read as the digits 1 and 0
C16_Witness ==
    /\ extracted # None
    /\ Val(extracted).transaction_id = Some(<<"T","Z","7","K","1","0","2","M","9","X","W","4","L","P","8","R","A">>)

\* the accepted spellings of the recipient, in upper case
AcceptedSpellings ==
    { StrUpper(<<"K","2","M","i","l","o">>), StrUpper(<<"K","2","M","I","L","O">>), StrUpper(<<"K","2","M","I">>) }

\* C17: name_ok is true exactly when a name was extracted and it equals K2Milo,
\* K2MILO or K2MI compared case-insensitively.
C17_NameOkCaseInsensitive ==
    Responded =>
        (Val(result).checks.hasValidAccountName
            <=> (Val(extracted).account_name # None
                 /\ StrUpper(Val(Val(extracted).account_name)) \in AcceptedSpellings))


(***************************************************************************)
(* OCRProcessor.process_image, strategy by strategy                        *)
(***************************************************************************)
\* the configured strategies: language, page segmentation mode, name
strategies ==
    << [langs |-> "fra+eng", psm |-> 11, name |-> "sparse"],
       [langs |-> "fra+eng", psm |-> 6, name |-> "single_block"],
       [langs |-> "fra+eng", psm |-> 4, name |-> "columns"],
       [langs |-> "fra", psm |-> 3, name |-> "complete"] >>

\* the fallback pass on the original image
FallbackPass == [langs |-> "fra+eng", psm |-> 3, name |-> "fallback_original"]

\* what image_to_string may give for a pass: nothing, white space only, the amount
\* line, the identifier line, the identifier line of another receipt of the same length
OcrReadings ==
    { <<>>, <<" ", NL, " ">>, AmountLines[2].text, TidLines[1], <<"I","D",":"," ">> \o OtherTid }

\* the outcomes of a pass: an exception raised, or a reading
OcrOutcomes == {[raised |-> TRUE, text |-> <<>>]} \cup {[raised |-> FALSE, text |-> t] : t \in OcrReadings}

\* best = max(candidates, key=lambda x: x[0])[1] over all candidates merged
Best_merged(cands) == Flatten([k \in DOMAIN cands |-> cands[k].text])

\* best = max(candidates, key=lambda x: x[0])[1]: the text of the first candidate of
\* the greatest length
Best(cands) ==
    cands[CHOOSE k \in DOMAIN cands :
             /\ \A j \in DOMAIN cands : cands[j].len <= cands[k].len
             /\ \A j \in 1..(k - 1) : cands[j].len < cands[k].len].text

\* the candidates after a pass named name gave the cleaned text: appended when it is
\* not empty and not blank
WithCandidate(cands, text, name) ==
    IF text # <<>> /\ Strip(text) # <<>>
    THEN Append(cands, [len |-> Len(text), text |-> text, name |-> name])
    ELSE cands

\* the trace of a pass on image with the outcome out, text being the cleaned text
PassRecord(pass, image, out, text) ==
    [name |-> pass.name, image |-> image, raw |-> out.text,
     outcome |-> IF out.raised THEN "raised" ELSE IF text # <<>> /\ Strip(text) # <<>> THEN "text" ELSE "blank"]

InitOcr ==
    /\ scenario = None
    /\ registrations = {}
    /\ extracted_text = None
    /\ extracted = None
    /\ expected_amount = None
    /\ result = None
    /\ pc = "received"
    /\ NoCalls
    /\ ocr_pc = "open"
    /\ strategy_index = 1
    /\ candidates = <<>>
    /\ passes = <<>>
    /\ NoPreprocess

\* Image.open, convert and preprocess_image: an exception here leaves process_image
OpenImage ==
    /\ ocr_pc = "open"
    /\ \E opened \in BOOLEAN :
          /\ ocr_pc' = IF opened THEN "strategies" ELSE "done"
          /\ pc' = IF opened THEN pc ELSE "failed"
    /\ UNCHANGED <<pre_vars, scenario, extracted_text, extracted, expected_amount, result, registrations,
                   workflow_vars, strategy_index, candidates, passes>>

\* a strategy that stops process_image when it raises
RunStrategy_aborting ==
    /\ ocr_pc = "strategies"
    /\ \E out \in OcrOutcomes :
          \E text \in {IF out.raised THEN <<>> ELSE clean_extracted_text(out.text)} :
             /\ candidates' = IF out.raised THEN candidates
                              ELSE WithCandidate(candidates, text, strategies[strategy_index].name)
             /\ passes' = Append(passes, PassRecord(strategies[strategy_index], "pre", out, text))
             /\ ocr_pc' = IF out.raised THEN "done"
                          ELSE IF strategy_index = Len(strategies) THEN "after_strategies" ELSE "strategies"
             /\ pc' = IF out.raised THEN "failed" ELSE pc
    /\ strategy_index' = strategy_index + 1
    /\ UNCHANGED <<pre_vars, scenario, extracted_text, extracted, expected_amount, result, registrations, workflow_vars>>

\* one turn of the loop over the strategies: image_to_string on the preprocessed
\* image, clean_extracted_text, the text kept as a candidate when not blank; an
\* exception is logged and the loop goes on
RunStrategy ==
    /\ ocr_pc = "strategies"
    /\ \E out \in OcrOutcomes :
          \E text \in {IF out.raised THEN <<>> ELSE clean_extracted_text(out.text)} :
             /\ candidates' = IF out.raised THEN candidates
                              ELSE WithCandidate(candidates, text, strategies[strategy_index].name)
             /\ passes' = Append(passes, PassRecord(strategies[strategy_index], "pre", out, text))
    /\ strategy_index' = strategy_index + 1
    /\ ocr_pc' = IF strategy_index = Len(strategies) THEN "after_strategies" ELSE "strategies"
    /\ UNCHANGED <<pre_vars, receipt_vars, registrations, workflow_vars>>

\* a fallback that runs whatever the candidates
RunFallback_always ==
    /\ ocr_pc = "after_strategies"
    /\ \E out \in OcrOutcomes :
          \E text \in {IF out.raised THEN <<>> ELSE clean_extracted_text(out.text)} :
             /\ candidates' = IF out.raised \/ text = <<>> THEN candidates
                              ELSE Append(candidates, [len |-> Len(text), text |-> text, name |-> FallbackPass.name])
             /\ passes' = Append(passes, PassRecord(FallbackPass, "pil", out, text))
    /\ ocr_pc' = "select"
    /\ UNCHANGED <<pre_vars, receipt_vars, registrations, workflow_vars, strategy_index>>

\* with no candidate after the loop: image_to_string on the original image, the
\* cleaned text kept as a candidate when not empty; an exception is logged
RunFallback ==
    /\ ocr_pc = "after_strategies"
    /\ candidates = <<>>
    /\ \E out \in OcrOutcomes :
          \E text \in {IF out.raised THEN <<>> ELSE clean_extracted_text(out.text)} :
             /\ candidates' = IF out.raised \/ text = <<>> THEN candidates
                              ELSE Append(candidates, [len |-> Len(text), text |-> text, name |-> FallbackPass.name])
             /\ passes' = Append(passes, PassRecord(FallbackPass, "pil", out, text))
    /\ ocr_pc' = "select"
    /\ UNCHANGED <<pre_vars, receipt_vars, registrations, workflow_vars, strategy_index>>

\* a process_image that returns the empty text instead of raising
ReturnBest_empty_text ==
    /\ \/ ocr_pc = "select"
       \/ ocr_pc = "after_strategies" /\ candidates # <<>>
    /\ ocr_pc' = "done"
    /\ pc' = "read"
    /\ extracted_text' = IF candidates = <<>> THEN Some(<<>>) ELSE Some(Best(candidates))
    /\ UNCHANGED <<pre_vars, scenario, extracted, expected_amount, result, registrations, workflow_vars,
                   strategy_index, candidates, passes>>

\* with still no candidate process_image raises; else it returns the text of the best
\* candidate, which verify_receipt hands to analyze_receipt
ReturnBest ==
    /\ \/ ocr_pc = "select"
       \/ ocr_pc = "after_strategies" /\ candidates # <<>>
    /\ ocr_pc' = "done"
    /\ IF candidates = <<>>
       THEN pc' = "failed" /\ extracted_text' = extracted_text
       ELSE pc' = "read" /\ extracted_text' = Some(Best(candidates))
    /\ UNCHANGED <<pre_vars, scenario, extracted, expected_amount, result, registrations, workflow_vars,
                   strategy_index, candidates, passes>>

NextOcr == OpenImage \/ RunStrategy \/ RunFallback \/ ReturnBest \/ ExtractFields \/ AnalyzeReceipt

SpecOcr == InitOcr /\ [][NextOcr]_vars


(***************************************************************************)
(* process_image, read from the passes it ran                              *)
(***************************************************************************)
\* the loop over the strategies is over, the image having been opened
StrategiesOver == ocr_pc \in {"after_strategies", "select"} \/ (ocr_pc = "done" /\ passes # <<>>)

\* one of the four configured strategies gave a text that is not blank
StrategyGaveText == \E k \in DOMAIN passes : k <= 4 /\ passes[k].outcome = "text"

\* process_image returned a text
Returned == ocr_pc = "done" /\ pc \in {"read", "extracted", "responded"} /\ extracted_text # None

\* C18: an exception in one OCR strategy never aborts process_image: the strategies
\* are run in their fixed order on the preprocessed image, all four of them whatever
\* raised, and when one of them gave a text that is not blank process_image returns
\* a text instead of raising.
C18_StrategyFailureNeverAborts ==
    /\ \A k \in DOMAIN passes :
          k <= 4 => (passes[k].name = strategies[k].name /\ passes[k].image = "pre")
    /\ StrategiesOver => Len(passes) >= 4
    /\ (ocr_pc = "done" /\ StrategyGaveText) => Returned

\* the first and the third strategies raised, the fourth gave a text, and
\* process_image returned
C18_Witness ==
    /\ Returned
    /\ Len(passes) = 4
    /\ passes[1].outcome = "raised" /\ passes[3].outcome = "raised"
    /\ passes[2].outcome = "blank"
    /\ passes[4].outcome = "text"

\* C19: the fallback pass on the original image runs exactly when all four strategies
\* gave blank text or raised: after the four of them, once at most, and never when a
\* strategy gave a text that is not blank.
C19_FallbackExactlyWhenNoText ==
    /\ Len(passes) <= 5
    /\ \A k \in DOMAIN passes :
          passes[k].name = "fallback_original"
              => (k = 5 /\ passes[k].image = "pil" /\ ~StrategyGaveText)
    /\ (ocr_pc = "done" /\ passes # <<>> /\ ~StrategyGaveText)
          => (Len(passes) = 5 /\ passes[5].name = "fallback_original")

\* the four strategies raised or gave blank text, the fallback gave a text, and
\* process_image returned it
C19_Witness ==
    /\ Returned
    /\ Len(passes) = 5
    /\ passes[1].outcome = "raised" /\ passes[2].outcome = "blank"
    /\ passes[3].outcome = "blank" /\ passes[4].outcome = "raised"
    /\ passes[5].name = "fallback_original" /\ passes[5].outcome = "text"
    /\ Val(extracted_text) = clean_extracted_text(passes[5].raw)

\* C20: one OCR candidate is selected: the text process_image returns is the cleaned
\* text of one pass, no pass gave a longer text that is not blank, and the fields are
\* the extractions of that text.
C20_OneCandidateSelected ==
    Returned =>
        /\ \E k \in DOMAIN passes :
              passes[k].outcome = "text" /\ Val(extracted_text) = clean_extracted_text(passes[k].raw)
        /\ \A k \in DOMAIN passes :
              passes[k].outcome = "text" => Len(clean_extracted_text(passes[k].raw)) <= Len(Val(extracted_text))
        /\ pc = "extracted" => Val(extracted) = Extractions(Val(extracted_text))

\* two passes gave texts of the same greatest length with different identifiers, a
\* third a shorter one; the text of the first was returned and the fields hold its
\* identifier
C20_Witness ==
    /\ Returned /\ pc = "extracted"
    /\ Len(candidates) = 3
    /\ candidates[1].len < candidates[2].len
    /\ candidates[2].len = candidates[3].len
    /\ candidates[2].text # candidates[3].text
    /\ Val(extracted_text) = candidates[2].text
    /\ Val(extracted).transaction_id = Some(OtherTid)

(***************************************************************************)
(* verify_receipt when process_image finds no text                         *)
(***************************************************************************)
\* the image was opened and process_image is over
Decoded == ocr_pc = "done" /\ passes # <<>>

\* some pass, strategy or fallback, gave a text
SomePassGaveText == \E k \in DOMAIN passes : passes[k].outcome = "text"

\* verify_receipt ended with the server error, no field of a result set
FailedBare ==
    /\ pc = "failed"
    /\ extracted_text = None /\ extracted = None /\ expected_amount = None /\ result = None

\* C21: on an image that was opened, process_image raises exactly when no strategy
\* and no fallback gave a text; verify_receipt then ends with the failure, no field
\* of a result set, and the step that asks the Ledger (the only one that writes the
\* result) is taken only after process_image returned a text some pass gave.
C21_FailureOnlyWithoutText ==
    /\ [](Decoded => (pc = "failed" <=> ~SomePassGaveText))
    /\ [](pc = "failed" => FailedBare)
    /\ [][result' # result => (Returned /\ SomePassGaveText /\ pc = "extracted")]_vars

\* the four strategies and the fallback ran on an opened image, two raised and three
\* gave blank text, and verify_receipt ended with the failure
C21_Witness ==
    /\ Decoded /\ FailedBare
    /\ Len(passes) = 5
    /\ passes[1].outcome = "blank" /\ passes[2].outcome = "raised"
    /\ passes[3].outcome = "blank" /\ passes[4].outcome = "blank"
    /\ passes[5].outcome = "raised"

(***************************************************************************)
(* OCRProcessor.preprocess_image, step by step                             *)
(***************************************************************************)
\* an image: its mode and the operations applied to the pixels of the image handed
\* in since their conversion to gray levels
Image(mode, ops) == [mode |-> mode, ops |-> ops]

\* what a step may do: raise, or apply some operations
Raises == [raised |-> TRUE, ops |-> <<>>]

Applies(ops) == [raised |-> FALSE, ops |-> ops]

\* one step of the pipeline, here being the step and next the one after it: the
\* operations are applied to the working image, or the exception leaves the try block
PipelineStep(here, next, outcomes) ==
    /\ pre_pc = here
    /\ \E out \in outcomes :
          IF out.raised
          THEN /\ pre_pc' = "except"
               /\ failed_step' = Some(here)
               /\ img' = img
          ELSE /\ pre_pc' = next
               /\ failed_step' = failed_step
               /\ img' = Some(Image("gray", Val(img).ops \o out.ops))
    /\ UNCHANGED <<pil_image, pre, receipt_vars, registrations, workflow_vars,
                   ocr_pc, strategy_index, candidates, passes>>

\* process_image and extract_text_structured hand in an image converted to RGB
InitPreprocess ==
    /\ scenario = None
    /\ registrations = {}
    /\ extracted_text = None
    /\ extracted = None
    /\ expected_amount = None
    /\ result = None
    /\ pc = "received"
    /\ NoCalls
    /\ ocr_pc = "open"
    /\ strategy_index = 1
    /\ candidates = <<>>
    /\ passes = <<>>
    /\ pre_pc = "convert"
    /\ pil_image = Some(Image("RGB", <<>>))
    /\ img = None
    /\ failed_step = None
    /\ pre = None

\* np.array(pil_image.convert("RGB")) and _to_grayscale
_to_grayscale ==
    /\ pre_pc = "convert"
    /\ \E raised \in BOOLEAN :
          IF raised
          THEN /\ pre_pc' = "except"
               /\ failed_step' = Some("convert")
               /\ img' = img
          ELSE /\ pre_pc' = "crop"
               /\ failed_step' = failed_step
               /\ img' = Some(Image("gray", Val(pil_image).ops))
    /\ UNCHANGED <<pil_image, pre, receipt_vars, registrations, workflow_vars,
                   ocr_pc, strategy_index, candidates, passes>>

\* the margins are cropped, or the image is left as it is (no contour, or a box
\* under 50 pixels)
_auto_crop_margins == PipelineStep("crop", "deskew", {Raises, Applies(<<>>), Applies(<<"crop">>)})

\* the image is rotated or left as it is; the exceptions are caught inside
_deskew == PipelineStep("deskew", "clahe", {Applies(<<>>), Applies(<<"rotate">>)})

\* local contrast, then the stretch when the percentiles differ
_apply_clahe_and_stretch ==
    PipelineStep("clahe", "denoise", {Raises, Applies(<<"clahe">>), Applies(<<"clahe", "stretch">>)})

_denoise_and_sharpen == PipelineStep("denoise", "thick", {Raises, Applies(<<"denoise", "sharpen">>)})

_enhance_for_fine_font == PipelineStep("thick", "binarize", {Raises, Applies(<<"dilate">>)})

_adaptive_binarize == PipelineStep("binarize", "border", {Raises, Applies(<<"binarize">>)})

\* cv2.copyMakeBorder
copyMakeBorder == PipelineStep("border", "final", {Raises, Applies(<<"border">>)})

\* return Image.fromarray(final).convert("L")
ReturnFinal ==
    /\ pre_pc = "final"
    /\ \E raised \in BOOLEAN :
          IF raised
          THEN /\ pre_pc' = "except"
               /\ failed_step' = Some("final")
               /\ pre' = pre
          ELSE /\ pre_pc' = "returned"
               /\ failed_step' = failed_step
               /\ pre' = Some(Image("L", Val(img).ops))
    /\ UNCHANGED <<pil_image, img, receipt_vars, registrations, workflow_vars,
                   ocr_pc, strategy_index, candidates, passes>>

\* an except handler that returns the working image
ReturnOriginal_best_so_far ==
    /\ pre_pc = "except"
    /\ pre' = Some(Image("L", IF img = None THEN Val(pil_image).ops ELSE Val(img).ops))
    /\ pre_pc' = "returned"
    /\ UNCHANGED <<pil_image, img, failed_step, receipt_vars, registrations, workflow_vars,
                   ocr_pc, strategy_index, candidates, passes>>

\* except Exception: return pil_image.convert("L")
ReturnOriginal ==
    /\ pre_pc = "except"
    /\ pre' = Some(Image("L", Val(pil_image).ops))
    /\ pre_pc' = "returned"
    /\ UNCHANGED <<pil_image, img, failed_step, receipt_vars, registrations, workflow_vars,
                   ocr_pc, strategy_index, candidates, passes>>

NextPreprocess ==
    \/ _to_grayscale
    \/ _auto_crop_margins
    \/ _deskew
    \/ _apply_clahe_and_stretch
    \/ _denoise_and_sharpen
    \/ _enhance_for_fine_font
    \/ _adaptive_binarize
    \/ copyMakeBorder
    \/ ReturnFinal
    \/ ReturnOriginal

SpecPreprocess == InitPreprocess /\ [][NextPreprocess]_vars

\* the operations of the steps completed when the exception was raised
CompletedSoFar == IF img = None THEN <<>> ELSE Val(img).ops

FigureLines ==
    << [text |-> <<"M","o","n","t","a","n","t",":"," ","6",".","0","0","0","F">>,
        val |-> 6000, labelled |-> TRUE, decimals |-> FALSE],
       [text |-> <<"P","a","i","e","m","e","n","t"," ","6","0","0","0","F">>,
        val |-> 6000, labelled |-> TRUE, decimals |-> FALSE],
       [text |-> <<"S","o","l","d","e",":"," ","2",".","5","0","0","F">>,
        val |-> 2500, labelled |-> FALSE, decimals |-> FALSE],
       [text |-> <<"N","o","u","v","e","a","u"," ","s","o","l","d","e"," ","1","2",".","5","0","0","F">>,
        val |-> 12500, labelled |-> FALSE, decimals |-> FALSE],
       [text |-> <<"M","o","n","t","a","n","t",":"," ","6",".","0","0","0",",","0","0","F">>,
        val |-> 6000, labelled |-> TRUE, decimals |-> TRUE],
       [text |-> <<"M","o","n","t","a","n","t",":"," ","6",",","0","0","0",".","0","0","F">>,
        val |-> 6000, labelled |-> TRUE, decimals |-> TRUE],
       [text |-> <<"M","o","n","t","a","n","t",":"," ","1",".","0","0","0",",","0","0","F">>,
        val |-> 1000, labelled |-> TRUE, decimals |-> TRUE],
       [text |-> <<"P","a","i","e","m","e","n","t"," ","1",",","0","0","0",".","5","0","F">>,
        val |-> 1000, labelled |-> TRUE, decimals |-> TRUE] >>

\* the texts: one line, or two different lines one after the other, as read from the
\* photo or as clean_extracted_text leaves them
FigureTexts ==
    [lines : {<<i>> : i \in DOMAIN FigureLines}
                \cup {p \in (DOMAIN FigureLines) \X (DOMAIN FigureLines) : p[1] # p[2]},
     cleaned : BOOLEAN]

\* the text of the lines of sc
FigureText(sc) ==
    \E x \in {JoinLines([k \in DOMAIN sc.lines |-> FigureLines[sc.lines[k]].text])} :
       extracted_text = Some(IF sc.cleaned THEN clean_extracted_text(x) ELSE x)

InitAmounts ==
    /\ scenario \in FigureTexts
    /\ FigureText(scenario)
    /\ registrations = {}
    /\ extracted = None
    /\ expected_amount = None
    /\ result = None
    /\ pc = "read"
    /\ NoCalls
    /\ NoOcr

NextAmounts == ExtractFields \/ AnalyzeReceipt

SpecAmounts == InitAmounts /\ [][NextAmounts]_vars

\* the text shows a figure no word labels and, after it, a labelled amount
BalanceThenAmount ==
    /\ Len(scenario.lines) = 2
    /\ ~FigureLines[scenario.lines[1]].labelled
    /\ FigureLines[scenario.lines[2]].labelled

\* C23: when the text shows an amount next to a word for the amount or the payment
\* and, earlier in the text, another figure in francs within the range (a balance),
\* extract_amount gives the labelled amount, not the earlier figure.
C23_LabelledAmountPreferred ==
    (pc = "extracted" /\ BalanceThenAmount)
        => Val(extracted).amount = Some(FigureLines[scenario.lines[2]].val)

\* C24: an amount written with a thousands separator and a decimal part is read as
\* its whole part, the decimal digits never joined to it.
C24_DecimalsNotJoined ==
    (pc = "extracted" /\ Len(scenario.lines) = 1 /\ FigureLines[scenario.lines[1]].decimals)
        => Val(extracted).amount = Some(FigureLines[scenario.lines[1]].val)

(***************************************************************************)
(* extract_transaction_id and the runs of the text                         *)
(***************************************************************************)
\* C25: extract_transaction_id accepts only alphanumeric runs that start with the
\* letter T themselves: every identifier it returns occurs in the upper-cased text
\* as written, and a text whose only runs of the length start with another letter
\* gives no identifier.
C25_TidOccursInText ==
    (pc = "extracted" /\ Val(extracted).transaction_id # None)
        => Contains(StrUpper(Val(extracted_text)), Val(Val(extracted).transaction_id))

(***************************************************************************)
(* The errors and the checks of an answered request                        *)
(***************************************************************************)
\* the technical reasons of the checks that failed, in the order transaction
\* identifier, amount, status, signature, recipient, duplicate
FailedCheckReasons ==
    (IF ~TidExtracted THEN <<ErrTransactionId>> ELSE <<>>)
    \o (IF ~AmountMatches THEN <<ErrAmount(Val(extracted).amount, Val(expected_amount))>> ELSE <<>>)
    \o (IF ~Val(extracted).status_ok THEN <<ErrStatus>> ELSE <<>>)
    \o (IF ~Val(extracted).is_wave THEN <<ErrWave>> ELSE <<>>)
    \o (IF ~RecipientAccepted THEN <<ErrName(Val(extracted).account_name)>> ELSE <<>>)
    \o (IF LedgerHoldsTid THEN <<ErrDuplicate(Val(extracted).transaction_id)>> ELSE <<>>)

\* C26: the errors list holds one technical reason per failed check, in the order
\* transaction identifier, amount, status, signature, recipient, duplicate, whatever
\* the message; it is empty exactly when isValid is true.
C26_ErrorsListedInOrder ==
    Responded =>
        /\ Val(result).errors = FailedCheckReasons
        /\ (Val(result).errors = <<>>) <=> Val(result).isValid

\* every entry of the checks mapping is true
AllChecksTrue ==
    /\ Val(result).checks.hasTransactionId
    /\ Val(result).checks.hasCorrectAmount
    /\ Val(result).checks.hasStatus
    /\ Val(result).checks.isWaveReceipt
    /\ Val(result).checks.hasValidAccountName

DortoirCodes == {"PEPINIERE-G", "PEPINIERE-F"}

\* a code no dortoir has
UnknownDortoir == "NASSR"

\* f"{counter:03d}"
Pad3(digits) == [k \in 1..(3 - Len(digits)) |-> "0"] \o digits

\* f"ANNOUR25-{dortoir_code}-{counter:03d}"
Matricule(dortoir_code, counter) == <<"ANNOUR25-", dortoir_code, "-">> \o Pad3(IntToStr(counter))

\* the registrations the tables may hold at the start, all in the first dortoir: one
\* created by an administrator, one paid with another receipt
StoredPool ==
    { [id |-> 1, transaction_id |-> None, matricule |-> Matricule("PEPINIERE-G", 1),
       dortoir_code |-> "PEPINIERE-G"],
      [id |-> 2, transaction_id |-> Some(OtherTid), matricule |-> Matricule("PEPINIERE-G", 2),
       dortoir_code |-> "PEPINIERE-G"] }

\* the id the database gives the record created by request c
NewRegistrationId(c) == Cardinality(StoredPool) + c

\* the ids a delete request may name
RegistrationIds == 1..(Cardinality(StoredPool) + MaxCalls)

\* the registrations of the dortoir d
InDortoir(regs, d) == {r \in regs : r.dortoir_code = d}

\* a slot no request occupies
IdleRequest ==
    [handler |-> "none", pc |-> "idle", dortoir_code |-> None, id |-> None,
     transaction_id |-> None, counter |-> 0, matricule |-> None, status |-> 0]

\* the request ends with the HTTP status
Ended(request, status) == [request EXCEPT !.pc = "responded", !.status = status]

\* the handlers that create a registration
Creating == {"create_registration", "create_seminariste"}

\* the tables as the requests before left them: each counter is the number of
\* registrations of its dortoir, within the capacity
InitDortoirs ==
    /\ registrations \in {R \in SUBSET StoredPool : Cardinality(R) <= DortoirCapacity}
    /\ dortoirs = [d \in DortoirCodes |->
                      [capacity |-> DortoirCapacity,
                       current_count |-> Cardinality(InDortoir(registrations, d))]]
    /\ requests = [c \in Calls |-> IdleRequest]
    /\ calls = [c \in Calls |-> IdleCall]
    /\ verified_valid = {}
    /\ current_count = 0
    /\ scenario = None
    /\ extracted_text = None
    /\ extracted = None
    /\ expected_amount = None
    /\ result = None
    /\ pc = "received"
    /\ NoOcr

\* a request arrives: a registration posted by the front or by an administrator for
\* a dortoir, or the deletion of a registration
Arrive(c) ==
    /\ requests[c].pc = "idle"
    /\ \/ \E d \in DortoirCodes \cup {UnknownDortoir}, posted \in PostedTransactionIds :
             requests' = [requests EXCEPT ![c] =
                             [@ EXCEPT !.handler = "create_registration", !.pc = "find_dortoir",
                                       !.dortoir_code = Some(d), !.transaction_id = Some(posted)]]
       \/ \E d \in DortoirCodes \cup {UnknownDortoir} :
             requests' = [requests EXCEPT ![c] =
                             [@ EXCEPT !.handler = "create_seminariste", !.pc = "find_dortoir",
                                       !.dortoir_code = Some(d)]]
       \/ \E id \in RegistrationIds :
             requests' = [requests EXCEPT ![c] =
                             [@ EXCEPT !.handler = "delete_registration", !.pc = "find_registration",
                                       !.id = Some(id)]]
    /\ UNCHANGED <<dortoirs, registrations, receipt_vars, calls, verified_valid, current_count, ocr_vars>>

\* dortoir.find_unique, then the tests on the row read: 404 when there is none, 409
\* when its counter has reached its capacity, 400 when its gender is not the person's
FindDortoir(c) ==
    /\ requests[c].handler \in Creating
    /\ requests[c].pc = "find_dortoir"
    /\ \E same_gender \in BOOLEAN :
          requests' = [requests EXCEPT ![c] =
                          IF Val(@.dortoir_code) \notin DOMAIN dortoirs THEN Ended(@, 404)
                          ELSE IF dortoirs[Val(@.dortoir_code)].current_count
                                     >= dortoirs[Val(@.dortoir_code)].capacity THEN Ended(@, 409)
                          ELSE IF ~same_gender THEN Ended(@, 400)
                          ELSE [@ EXCEPT !.pc = "count"]]
    /\ UNCHANGED <<dortoirs, registrations, receipt_vars, calls, verified_valid, current_count, ocr_vars>>

\* generate_matricule: registration.count for the dortoir, counter = count + 1
CountRegistrations(c) ==
    /\ requests[c].handler \in Creating
    /\ requests[c].pc = "count"
    /\ requests' = [requests EXCEPT ![c] =
                       [@ EXCEPT !.pc = "probe",
                                 !.counter = Cardinality(InDortoir(registrations, Val(requests[c].dortoir_code))) + 1]]
    /\ UNCHANGED <<dortoirs, registrations, receipt_vars, calls, verified_valid, current_count, ocr_vars>>

\* generate_matricule, one turn of the loop: find_unique on the matricule of the
\* counter; returned when no registration has it, else the counter goes up by one
ProbeMatricule(c) ==
    /\ requests[c].handler \in Creating
    /\ requests[c].pc = "probe"
    /\ requests' = [requests EXCEPT ![c] =
                       IF \E r \in registrations : r.matricule = Matricule(Val(@.dortoir_code), @.counter)
                       THEN [@ EXCEPT !.counter = @ + 1]
                       ELSE [@ EXCEPT !.matricule = Some(Matricule(Val(requests[c].dortoir_code), requests[c].counter)),
                                      !.pc = IF requests[c].handler = "create_registration"
                                             THEN "find_transaction" ELSE "create"]]
    /\ UNCHANGED <<dortoirs, registrations, receipt_vars, calls, verified_valid, current_count, ocr_vars>>

\* create_registration: find_first on the posted identifier, 409 when a record holds it
FindTransactionId(c) ==
    /\ requests[c].handler = "create_registration"
    /\ requests[c].pc = "find_transaction"
    /\ requests' = [requests EXCEPT ![c] =
                       IF find_first_by_transaction_id(registrations, @.transaction_id) # None
                       THEN Ended(@, 409)
                       ELSE [@ EXCEPT !.pc = "create"]]
    /\ UNCHANGED <<dortoirs, registrations, receipt_vars, calls, verified_valid, current_count, ocr_vars>>

\* registration.create: the matricule is a unique field (generate_matricule reads it
\* with find_unique), so the insert of a matricule already stored raises and the
\* request ends with a server error
InsertRegistration(c) ==
    /\ requests[c].handler \in Creating
    /\ requests[c].pc = "create"
    /\ IF \E r \in registrations : r.matricule = Val(requests[c].matricule)
       THEN /\ requests' = [requests EXCEPT ![c] = Ended(@, 500)]
            /\ registrations' = registrations
       ELSE /\ requests' = [requests EXCEPT ![c] = [@ EXCEPT !.pc = "increment", !.id = Some(NewRegistrationId(c))]]
            /\ registrations' = registrations \cup
                  {[id |-> NewRegistrationId(c), transaction_id |-> requests[c].transaction_id,
                    matricule |-> Val(requests[c].matricule),
                    dortoir_code |-> Val(requests[c].dortoir_code)]}
    /\ UNCHANGED <<dortoirs, receipt_vars, calls, verified_valid, current_count, ocr_vars>>

\* dortoir.update with current_count incremented by one, then the record is returned
IncrementCount(c) ==
    /\ requests[c].handler \in Creating
    /\ requests[c].pc = "increment"
    /\ dortoirs' = [dortoirs EXCEPT ![Val(requests[c].dortoir_code)].current_count = @ + 1]
    /\ requests' = [requests EXCEPT ![c] = Ended(@, 201)]
    /\ UNCHANGED <<registrations, receipt_vars, calls, verified_valid, current_count, ocr_vars>>

\* delete_registration: registration.find_unique on the id, 404 when there is none
FindRegistration(c) ==
    /\ requests[c].handler = "delete_registration"
    /\ requests[c].pc = "find_registration"
    /\ requests' = [requests EXCEPT ![c] =
                       IF \E r \in registrations : r.id = Val(@.id)
                       THEN [@ EXCEPT !.pc = "decrement",
                                      !.dortoir_code = Some((CHOOSE r \in registrations : r.id = Val(requests[c].id)).dortoir_code)]
                       ELSE Ended(@, 404)]
    /\ UNCHANGED <<dortoirs, registrations, receipt_vars, calls, verified_valid, current_count, ocr_vars>>

\* delete_registration: dortoir.update with current_count decremented by one
DecrementCount(c) ==
    /\ requests[c].handler = "delete_registration"
    /\ requests[c].pc = "decrement"
    /\ dortoirs' = [dortoirs EXCEPT ![Val(requests[c].dortoir_code)].current_count = @ - 1]
    /\ requests' = [requests EXCEPT ![c] = [@ EXCEPT !.pc = "delete"]]
    /\ UNCHANGED <<registrations, receipt_vars, calls, verified_valid, current_count, ocr_vars>>

\* delete_registration: registration.delete on the id; the answer when the record is
\* already gone depends on the database client
DeleteRecord(c) ==
    /\ requests[c].handler = "delete_registration"
    /\ requests[c].pc = "delete"
    /\ registrations' = {r \in registrations : r.id # Val(requests[c].id)}
    /\ \E status \in (IF \E r \in registrations : r.id = Val(requests[c].id) THEN {200} ELSE {200, 500}) :
          requests' = [requests EXCEPT ![c] = Ended(@, status)]
    /\ UNCHANGED <<dortoirs, receipt_vars, calls, verified_valid, current_count, ocr_vars>>

NextDortoirs ==
    \E c \in Calls :
        \/ Arrive(c)
        \/ FindDortoir(c)
        \/ CountRegistrations(c)
        \/ ProbeMatricule(c)
        \/ FindTransactionId(c)
        \/ InsertRegistration(c)
        \/ IncrementCount(c)
        \/ FindRegistration(c)
        \/ DecrementCount(c)
        \/ DeleteRecord(c)

SpecDortoirs == InitDortoirs /\ [][NextDortoirs]_vars


(***************************************************************************)
(* The dortoir counters and the matricules, read from the tables           *)
(***************************************************************************)
\* C28: the capacity of a dortoir is never exceeded: in every reachable state, under
\* any interleaving of create_registration and create_seminariste requests, the
\* current_count of each dortoir is at most its capacity.
C28_CapacityNeverExceeded ==
    \A d \in DOMAIN dortoirs : dortoirs[d].current_count <= dortoirs[d].capacity

\* no request is in flight
Quiescent == \A c \in Calls : requests[c].pc \in {"idle", "responded"}

\* C29: whenever no request is in flight, the current_count of each dortoir is the
\* number of stored registrations of that dortoir, and is never negative, after any
\* interleaving of creations and deletions, two concurrent deletions of the same
\* registration included.
C29_CounterMatchesRegistrations ==
    Quiescent
        => \A d \in DOMAIN dortoirs :
              /\ dortoirs[d].current_count >= 0
              /\ dortoirs[d].current_count = Cardinality(InDortoir(registrations, d))

\* request c has its matricule from generate_matricule and has gone on to
\* registration.create
WentOnToCreate(c) ==
    /\ requests[c].handler \in Creating
    /\ requests[c].matricule # None
    /\ \/ requests[c].pc = "increment"
       \/ requests[c].pc = "responded" /\ requests[c].status \in {201, 500}

\* C30: under any interleaving of concurrent creations for the same dortoir, the
\* matricules generate_matricule returned to two requests that both went on to
\* create a registration are distinct, and no two stored registrations share a
\* matricule.
C30_MatriculesDistinct ==
    /\ \A c1, c2 \in Calls :
          (c1 # c2 /\ WentOnToCreate(c1) /\ WentOnToCreate(c2))
              => requests[c1].matricule # requests[c2].matricule
    /\ \A r1, r2 \in registrations : r1.matricule = r2.matricule => r1 = r2

====
